---- MODULE Spec2Model ----
(***************************************************************************)
(* Stale-while-revalidate resource engine (angular-swr).                   *)
(*                                                                         *)
(* The model follows the latest Resource implementation of the repository  *)
(* (the one with options.dedupeMs, cache entries {source, lastModified}    *)
(* and features bound as [feature, options] pairs).  Every public          *)
(* operation and every asynchronous event (a stream emission, a timer, a   *)
(* host signal) is one action; an action contains everything the handler   *)
(* does synchronously, including the events a stream delivers while it is  *)
(* being subscribed.                                                       *)
(*                                                                         *)
(* Time is the value of Date.now(), advanced by Tick in steps of TickMs.   *)
(***************************************************************************)
EXTENDS Integers, Sequences, FiniteSets, TLC

VARIABLES
    state,          \* Resource.state
    value,          \* Resource.#value
    thrownError,    \* Resource.thrownError
    pending,        \* Resource.pending
    slow,           \* Resource.slow
    params,         \* Resource.params
    cacheKey,       \* Resource.cacheKey
    source,         \* Resource.source: the stream the next connect subscribes to
    connected,      \* Resource.connected
    subscription,   \* Resource.subscription: the stream it is open on, or NoSub
    timers,         \* the setTimeout(Resource.slow, ...) calls not yet run: due times
    cache,          \* the cache mapping of the resource class: key -> entry
    streams,        \* the streams built by createFetchObservable, in build order
    now,            \* Date.now()
    focusResources, \* RevalidateOnFocus.resources, in insertion order
    onlineResources,\* RevalidateOnReconnect.resources, in insertion order
    options,        \* the ResourceOptions the class was created with
    instances,      \* the resources that were constructed
    steps,          \* the number of operations and events so far
    budget,         \* the number of operations and events of the scenario
    lastValue,      \* history: the value most recently delivered to the resource
    registry,       \* CacheRegistry.registry: resource class -> cache mapping
    caches,         \* the cache mappings the registry created, in creation order
    classOf,        \* new.target of a resource constructed through the registry
    cacheOf,        \* Resource.cache of such a resource: a mapping of caches
    legs,           \* merging variant: the streams a subscription listens to
    observers,      \* open subscriptions to the resource's state-change Subject
    destroyed,      \* history: ngOnDestroy of the resource has returned
    intervals,      \* RevalidateOnInterval.intervals: the resource's timer id, or NoTimer
    leaked,         \* open subscriptions of the observer that Resource.subscription lost
    armed,          \* the setInterval timers not cleared: their ids and due times
    watchers        \* callbacks RevalidateOnInterval subscribed to the resource's Subject

vars == <<state, value, thrownError, pending, slow, params, cacheKey, source,
          connected, subscription, timers, cache, streams, now, focusResources,
          onlineResources, options, instances, steps, budget, lastValue,
          registry, caches, classOf, cacheOf, legs, observers, destroyed,
          intervals, armed, watchers, leaked>>

----------------------------------------------------------------------------
(* Bounds of the model *)

MaxStreams == 2     \* Fetchable.fetch returns at most this many streams
MaxTicks == 2       \* the clock stops after this many ticks
MaxSteps == 4       \* operations and events of a scenario on one resource
MaxSharedSteps == 3 \* operations and events of a scenario on two resources
MaxClassSteps == 4  \* operations and events of a scenario with two classes
MaxMergeSteps == 5  \* operations and events of a scenario of the merging variant
MaxIntervalSteps == 4 \* operations and events of a scenario with an interval
MaxValueSteps == 4  \* operations and events of a scenario of the value-caching variant
MaxReentrantSteps == 4 \* operations and events of a scenario with hooks that revalidate
MaxObservers == 1   \* subscriptions to the state changes of one resource
TickMs == 1000      \* milliseconds per tick

(* Program constants and distinguished values *)

DefaultDedupeMs == 2000     \* options.dedupeMs ?? 2000
NoValue == 0                \* #value of a resource that received nothing
EmptyStream == 0            \* rxjs EMPTY, the source of a new resource
NoSub == -1                 \* Subscription.EMPTY or a closed subscription
NoTime == -1                \* -Infinity, the default of isWithinDedupeInterval
NoTimer == 0                \* no entry in RevalidateOnInterval.intervals
NoOption == -1              \* an option that is not set

Resources == {1, 2}         \* two instances of one resource class
Classes == {"A", "B"}       \* resource classes, the targets of CacheRegistry.get
NoClass == ""               \* new.target of a resource not constructed yet
NoCache == 0                \* Resource.cache of a resource not constructed yet
NoParams == <<>>            \* params of a resource never fetched
NoKey == ""                 \* cacheKey of a resource never fetched
NoError == "undefined"
Unserializable == 3         \* an argument the serializer throws on; as a value, distinct from NoValue
Params == {<<Unserializable>>, <<1>>, <<2>>}

ResourceState == {"EMPTY", "READY", "SLOW", "ACTIVE", "ERROR", "COMPLETE"}

----------------------------------------------------------------------------
(* Pure functions *)

\* getCacheKey: options.serialize?.(params) ?? JSON.stringify(params)
SerializeThrows(p) == p[1] = Unserializable

getCacheKey(p) == "[" \o ToString(p[1]) \o "]"

\* The value Fetchable.fetch(...params) yields: the data behind the params,
\* as the fetchable of the tests, which yields its arguments
FetchValue(p) == p[1]

\* A dedupe window that includes its end
isWithinDedupeInterval_inclusive(dedupeIntervalMs, then, dateNow) ==
    IF then = NoTime THEN FALSE ELSE dateNow - then <= dedupeIntervalMs

\* Date.now() - then < dedupeIntervalMs, then = -Infinity by default
isWithinDedupeInterval(dedupeIntervalMs, then, dateNow) ==
    IF then = NoTime THEN FALSE ELSE dateNow - then < dedupeIntervalMs

\* options.dedupeMs || 2000: a window of 0 falls back to the default
DedupeMs_orDefault(opts) ==
    IF opts.dedupeMs = NoOption \/ opts.dedupeMs = 0 THEN DefaultDedupeMs
    ELSE opts.dedupeMs

\* options.dedupeMs ?? 2000
DedupeMs(opts) ==
    IF opts.dedupeMs = NoOption THEN DefaultDedupeMs ELSE opts.dedupeMs

EmptyMap == [k \in {} |-> TRUE]

EmptyLog ==
    [invoked |-> <<>>, handled |-> <<>>, delivered |-> <<>>, threw |-> NoError,
     notified |-> <<>>, hooks |-> <<>>, subscribed |-> <<>>, unsubscribed |-> <<>>,
     revalidated |-> <<>>, busy |-> FALSE]

SeqRemove(q, x) == SelectSeq(q, LAMBDA y : y # x)

SeqAdd(q, x) == IF \E i \in 1..Len(q) : q[i] = x THEN q ELSE Append(q, x)

----------------------------------------------------------------------------
(* The program state as one record, so that a handler is a function from   *)
(* state to state and handlers can call each other.                        *)

S == [state |-> state, value |-> value, thrownError |-> thrownError,
      pending |-> pending, slow |-> slow, params |-> params,
      cacheKey |-> cacheKey, source |-> source, connected |-> connected,
      subscription |-> subscription, timers |-> timers, cache |-> cache,
      streams |-> streams, now |-> now, focusResources |-> focusResources,
      onlineResources |-> onlineResources, options |-> options,
      caches |-> caches, legs |-> legs, observers |-> observers,
      destroyed |-> destroyed, intervals |-> intervals, armed |-> armed,
      watchers |-> watchers, leaked |-> leaked,
      log |-> EmptyLog]

\* A broadcast that comes before the change detector is marked
notify_broadcastFirst(st, r) ==
    [st EXCEPT !.log.notified =
                  Append(Append(@, <<r, "broadcast">>), <<r, "markForCheck">>)]

\* changeDetectorRef.markForCheck(); subject.next(resource)
notify(st, r) ==
    [st EXCEPT !.log.notified =
                  Append(Append(@, <<r, "markForCheck">>), <<r, "broadcast">>)]

\* An onDisconnect that forgets the timer without clearing it
intervalOnDisconnect_forget(st, r) == [st EXCEPT !.intervals[r] = NoTimer]

\* RevalidateOnInterval.onDisconnect: clearInterval and intervals.delete
intervalOnDisconnect(st, r) ==
    [st EXCEPT !.armed[r] = {t \in @ : t.id # st.intervals[r]},
               !.intervals[r] = NoTimer]

\* A callback that leaves the timer alone
intervalCallback_never(st, r) == st

\* The callback RevalidateOnInterval.onConnect subscribes to the resource
intervalCallback(st, r) ==
    IF st.watchers[r] > 0 /\ st.state[r] \in {"ERROR", "COMPLETE"}
    THEN intervalOnDisconnect(st, r)
    ELSE st

\* RevalidateOnInterval.onConnect
intervalOnConnect(st, r) ==
    IF st.options.interval # 0
    THEN LET id == st.watchers[r] + 1
         IN [st EXCEPT !.watchers[r] = id,
                       !.armed[r] = @ \cup {[id |-> id,
                                             due |-> st.now + st.options.interval]},
                       !.intervals[r] = id]
    ELSE st

\* An emit that stores its value argument whatever the state is
emit_storeAlways(st, r, newState, v, newPending, err) ==
    [notify(st, r) EXCEPT !.state[r] = newState,
               !.pending[r] = newPending,
               !.slow[r] = (newState = "SLOW"),
               !.value[r] = v,
               !.thrownError[r] = IF newState = "ERROR" THEN err ELSE @]

\* ResourceSubject.emit; subject.next(resource) runs the callbacks that
\* RevalidateOnInterval subscribed
emit(st, r, newState, v, newPending, err) ==
    intervalCallback(
        [notify(st, r) EXCEPT !.state[r] = newState,
               !.pending[r] = newPending,
               !.slow[r] = (newState = "SLOW"),
               !.value[r] = IF newState = "ACTIVE" THEN v ELSE @,
               !.thrownError[r] = IF newState = "ERROR" THEN err ELSE @],
        r)

\* A next that leaves pending as it was
ObserverNext_keepPending(st, r, v) ==
    emit([st EXCEPT !.log.delivered = Append(@, <<r, "next", v>>)],
         r, "ACTIVE", v, st.pending[r], NoError)

\* ResourceSubject.next, called by the stream the resource is subscribed to
ObserverNext(st, r, v) ==
    emit([st EXCEPT !.log.delivered = Append(@, <<r, "next", v>>)],
         r, "ACTIVE", v, FALSE, NoError)

\* An error that does not store what was thrown
ObserverError_dropError(st, r, err) ==
    emit([st EXCEPT !.log.delivered = Append(@, <<r, "error", NoValue>>),
                    !.subscription[r] = NoSub],
         r, "ERROR", NoValue, FALSE, st.thrownError[r])

\* ResourceSubject.error as the stream calls it; the subscription closes
ObserverError(st, r, err) ==
    emit([st EXCEPT !.log.delivered = Append(@, <<r, "error", NoValue>>),
                    !.subscription[r] = NoSub],
         r, "ERROR", NoValue, FALSE, err)

\* A complete that leaves pending as it was
ObserverComplete_keepPending(st, r) ==
    emit([st EXCEPT !.log.delivered = Append(@, <<r, "complete", NoValue>>),
                    !.subscription[r] = NoSub],
         r, "COMPLETE", NoValue, st.pending[r], NoError)

\* ResourceSubject.complete; the subscription closes
ObserverComplete(st, r) ==
    emit([st EXCEPT !.log.delivered = Append(@, <<r, "complete", NoValue>>),
                    !.subscription[r] = NoSub],
         r, "COMPLETE", NoValue, FALSE, NoError)

----------------------------------------------------------------------------
(* Streams.  createFetchObservable pipes what Fetchable.fetch returned     *)
(* through shareReplay(1): the source is subscribed once, at the first     *)
(* subscription; the last value is replayed to later subscribers, followed *)
(* by the completion when the source has completed; an error resets the    *)
(* stream, so that the next subscriber subscribes to the source again.     *)

NewStream(p, key, dateNow) ==
    [key |-> key, data |-> FetchValue(p), born |-> dateNow,
     phase |-> "idle", buf |-> NoValue]

\* A stream that nothing refers to any more
DeadStream ==
    [key |-> NoKey, data |-> NoValue, born |-> NoTime, phase |-> "dead", buf |-> NoValue]

\* The streams a resource or a cache entry refers to
Referenced(st) ==
    {st.source[r] : r \in Resources} \cup {st.subscription[r] : r \in Resources}
    \cup {st.cache[k].source : k \in DOMAIN st.cache}
    \cup UNION {{st.leaked[r][i] : i \in 1..Len(st.leaked[r])} : r \in Resources}
    \cup UNION {{st.caches[i][k].source : k \in DOMAIN st.caches[i]} :
                i \in 1..Len(st.caches)}

\* Where the next stream is stored: the first slot that holds no stream
NewId(st) ==
    IF \E s \in 1..Len(st.streams) : st.streams[s].phase = "dead"
    THEN CHOOSE s \in 1..Len(st.streams) :
            /\ st.streams[s].phase = "dead"
            /\ \A x \in 1..(s - 1) : st.streams[x].phase # "dead"
    ELSE Len(st.streams) + 1

PutStream(ss, id, str) ==
    IF id = Len(ss) + 1 THEN Append(ss, str) ELSE [ss EXCEPT ![id] = str]

\* Garbage collection: a stream that no resource and no cache entry refers
\* to can never be subscribed again, and its slot is freed.
Collect(st) ==
    [st EXCEPT !.streams = [s \in DOMAIN @ |->
                              IF s \in Referenced(st) THEN @[s] ELSE DeadStream]]

\* What a source does synchronously when it is subscribed
Sync == {"none", "next", "nextComplete", "complete", "error"}

\* A subscribe that returns a closed subscription and starts nothing
Subscribe_closed(st0, r, sy) ==
    [st0 EXCEPT !.log.subscribed = Append(@, <<r, st0.source[r]>>),
                !.subscription[r] = NoSub]

\* source.subscribe(observer) of Resource.connect
Subscribe(st0, r, sy) ==
    LET s == st0.source[r]
        st == [st0 EXCEPT !.log.subscribed = Append(@, <<r, s>>),
                          !.leaked[r] = IF st0.subscription[r] # NoSub
                                        THEN Append(@, st0.subscription[r])
                                        ELSE @,
                          !.subscription[r] = NoSub]
    IN
    IF s = EmptyStream THEN ObserverComplete(st, r)
    ELSE LET str == st.streams[s]
             replay(x) == IF str.buf # NoValue THEN ObserverNext(x, r, str.buf) ELSE x
         IN CASE str.phase = "complete" -> ObserverComplete(replay(st), r)
              [] str.phase = "open" -> replay([st EXCEPT !.subscription[r] = s])
              [] str.phase = "idle" ->
                   CASE sy = "none" ->
                          [st EXCEPT !.streams[s].phase = "open",
                                     !.subscription[r] = s]
                     [] sy = "next" ->
                          ObserverNext([st EXCEPT !.streams[s].phase = "open",
                                                  !.streams[s].buf = str.data,
                                                  !.subscription[r] = s],
                                       r, str.data)
                     [] sy = "nextComplete" ->
                          ObserverComplete(
                              ObserverNext([st EXCEPT !.streams[s].phase = "complete",
                                                      !.streams[s].buf = str.data],
                                           r, str.data),
                              r)
                     [] sy = "complete" ->
                          ObserverComplete([st EXCEPT !.streams[s].phase = "complete"], r)
                     [] sy = "error" ->
                          ObserverError(st, r, "StreamError")

\* The resources subscribed to stream s
Subscribers(st, s) == {r \in Resources : st.subscription[r] = s}

RECURSIVE NextAll(_, _, _)
NextAll(st, rs, v) ==
    IF rs = {} THEN st
    ELSE LET r == CHOOSE x \in rs : \A y \in rs : x <= y
         IN NextAll(ObserverNext(st, r, v), rs \ {r}, v)

RECURSIVE ErrorAll(_, _)
ErrorAll(st, rs) ==
    IF rs = {} THEN st
    ELSE LET r == CHOOSE x \in rs : \A y \in rs : x <= y
         IN ErrorAll(ObserverError(st, r, "StreamError"), rs \ {r})

RECURSIVE CompleteAll(_, _)
CompleteAll(st, rs) ==
    IF rs = {} THEN st
    ELSE LET r == CHOOSE x \in rs : \A y \in rs : x <= y
         IN CompleteAll(ObserverComplete(st, r), rs \ {r})

\* The subscriptions to stream s that Resource.subscription lost while they
\* were open: the resource and the place in its list
LeakedTo(st, s) ==
    UNION {{<<r, i>> : i \in {j \in 1..Len(st.leaked[r]) : st.leaked[r][j] = s}} :
           r \in Resources}

\* The stream's event reaches the observer through each lost subscription;
\* the subscription that Resource.subscription holds is not the one closing
RECURSIVE DeliverLeaked(_, _, _, _)
DeliverLeaked(st, ps, kind, v) ==
    IF ps = {} THEN st
    ELSE LET p == CHOOSE x \in ps :
                     \A y \in ps : x[1] < y[1] \/ (x[1] = y[1] /\ x[2] <= y[2])
             r == p[1]
             x == CASE kind = "next" -> ObserverNext(st, r, v)
                    [] kind = "error" -> ObserverError(st, r, "StreamError")
                    [] OTHER -> ObserverComplete(st, r)
         IN DeliverLeaked([x EXCEPT !.subscription[r] = st.subscription[r]],
                          ps \ {p}, kind, v)

\* The lost subscriptions to stream s close with the stream
Unleak(st, s) ==
    [st EXCEPT !.leaked = [r \in Resources |-> SelectSeq(@[r], LAMBDA x : x # s)]]

----------------------------------------------------------------------------
(* Features.  Every resource of the class is bound to the features named   *)
(* in options.features, in that order.                                     *)

\* A feature class written by the user of the library, with all four hooks
CustomFeatures == {"CustomA", "CustomB"}

\* The hooks a feature class defines: feature.hook?.() calls no other
HasHook(feature, hook) ==
    \/ feature \in CustomFeatures
    \/ feature = "RevalidateOnConnect" /\ hook = "onConnect"
    \/ feature = "RevalidateOnDisconnect" /\ hook = "onDisconnect"
    \/ /\ feature \in {"RevalidateOnFocus", "RevalidateOnReconnect",
                       "RevalidateOnInterval"}
       /\ hook \in {"onConnect", "onDisconnect"}

\* feature.hook?.(this, options), as far as the call itself goes
CallHook(st, r, feature, hook) ==
    IF HasHook(feature, hook)
    THEN [st EXCEPT !.log.hooks = Append(@, <<r, feature, hook>>)]
    ELSE st

RECURSIVE revalidate(_, _, _, _)

\* The hook of a feature class written by the user of the library that
\* revalidates the resource it is called for; the class guards itself
\* against being entered again while its call is running (log.busy)
ReentrantHook(st, r) ==
    IF st.log.busy THEN st
    ELSE [revalidate([st EXCEPT !.log.busy = TRUE], r, FALSE, "none")
            EXCEPT !.log.busy = FALSE]

\* feature.onConnect?.(this, options)
onConnect(st, r, feature) ==
    LET st1 == CallHook(st, r, feature, "onConnect")
    IN CASE feature = "RevalidateOnFocus" ->
              [st1 EXCEPT !.focusResources = SeqAdd(@, r)]
         [] feature = "RevalidateOnReconnect" ->
              [st1 EXCEPT !.onlineResources = SeqAdd(@, r)]
         [] feature = "RevalidateOnInterval" -> intervalOnConnect(st1, r)
         [] feature = "RevalidateOnConnect" -> ReentrantHook(st1, r)
         [] OTHER -> st1

\* An onDisconnect that leaves the resource in the feature's set
onDisconnect_keep(st, r, feature) ==
    CallHook(st, r, feature, "onDisconnect")

\* feature.onDisconnect?.(this, options)
onDisconnect(st, r, feature) ==
    LET st1 == CallHook(st, r, feature, "onDisconnect")
    IN CASE feature = "RevalidateOnFocus" ->
              [st1 EXCEPT !.focusResources = SeqRemove(@, r)]
         [] feature = "RevalidateOnReconnect" ->
              [st1 EXCEPT !.onlineResources = SeqRemove(@, r)]
         [] feature = "RevalidateOnInterval" -> intervalOnDisconnect(st1, r)
         [] feature = "RevalidateOnDisconnect" -> ReentrantHook(st1, r)
         [] OTHER -> st1

RECURSIVE ConnectHooks(_, _, _)
ConnectHooks(st, r, fs) ==
    IF fs = <<>> THEN st
    ELSE ConnectHooks(onConnect(st, r, Head(fs)), r, Tail(fs))

RECURSIVE DisconnectHooks(_, _, _)
DisconnectHooks(st, r, fs) ==
    IF fs = <<>> THEN st
    ELSE DisconnectHooks(onDisconnect(st, r, Head(fs)), r, Tail(fs))

----------------------------------------------------------------------------
(* Resource *)

\* A connect without the test of this.connected
connect_unguarded(st, r, sy) ==
    LET timeoutMs == st.options.timeoutMs
        st1 == [st EXCEPT !.connected[r] = TRUE,
                          !.thrownError[r] = NoError,
                          !.pending[r] = TRUE,
                          !.timers[r] = IF timeoutMs # NoOption /\ timeoutMs # 0
                                        THEN @ \cup {st.now + timeoutMs}
                                        ELSE @]
    IN Subscribe(ConnectHooks(st1, r, st.options.features), r, sy)

\* Resource.connect
connect(st, r, sy) ==
    IF st.connected[r] THEN st
    ELSE LET timeoutMs == st.options.timeoutMs
             st1 == [st EXCEPT !.connected[r] = TRUE,
                               !.thrownError[r] = NoError,
                               !.pending[r] = TRUE,
                               !.timers[r] = IF timeoutMs # NoOption /\ timeoutMs # 0
                                             THEN @ \cup {st.now + timeoutMs}
                                             ELSE @]
         IN Subscribe(ConnectHooks(st1, r, st.options.features), r, sy)

\* A disconnect that also forgets what the resource had received
disconnect_reset(st, r) ==
    IF ~st.connected[r] THEN st
    ELSE LET st1 == DisconnectHooks([st EXCEPT !.connected[r] = FALSE,
                                               !.state[r] = "EMPTY",
                                               !.value[r] = NoValue],
                                    r, st.options.features)
         IN [st1 EXCEPT !.subscription[r] = NoSub,
                        !.log.unsubscribed = Append(@, <<r, st.subscription[r]>>)]

\* Resource.disconnect
disconnect(st, r) ==
    IF ~st.connected[r] THEN st
    ELSE LET st1 == DisconnectHooks([st EXCEPT !.connected[r] = FALSE],
                                    r, st.options.features)
         IN [st1 EXCEPT !.subscription[r] = NoSub,
                        !.log.unsubscribed = Append(@, <<r, st1.subscription[r]>>)]

\* A fetch that reconnects from every state
shouldConnect_always(st, r) == TRUE

\* const shouldConnect = this.state !== ResourceState.EMPTY
shouldConnect(st, r) == st.state[r] # "EMPTY"

\* A build condition that ignores options.immutable
shouldBuild_dedupeOnly(immutable, hasCache, shouldDedupe) == ~shouldDedupe

\* (!this.options.immutable || !cache) && !shouldDedupe
shouldBuild(immutable, hasCache, shouldDedupe) ==
    (~immutable \/ ~hasCache) /\ ~shouldDedupe

\* A catch block that leaves pending as it was
catchError_keepPending(st, r, error) ==
    emit([st EXCEPT !.log.threw = error], r, "ERROR", NoValue, st.pending[r], error)

\* catch (error) { this.observer.error(error) }
catchError(st, r, error) ==
    emit([st EXCEPT !.log.threw = error], r, "ERROR", NoValue, FALSE, error)

\* A fetch that stores the cache entry before it calls Fetchable.fetch
fetch_storeFirst(st, r, p, fetchThrows, sy) ==
    IF SerializeThrows(p) THEN catchError(st, r, "SerializeError")
    ELSE
    LET key == getCacheKey(p)
        hasCache == key \in DOMAIN st.cache
        shouldDedupe ==
            isWithinDedupeInterval(DedupeMs(st.options),
                                   IF hasCache THEN st.cache[key].lastModified ELSE NoTime,
                                   st.now)
        st1 == [st EXCEPT !.state[r] = "READY",
                          !.params[r] = p,
                          !.cacheKey[r] = key,
                          !.source[r] = IF hasCache THEN st.cache[key].source ELSE @]
        build == shouldBuild(st.options.immutable, hasCache, shouldDedupe)
        id == NewId(st)
        st2 == IF build
               THEN [st1 EXCEPT !.log.invoked = Append(@, key),
                                !.streams = PutStream(@, id, NewStream(p, key, st.now)),
                                !.cache = [k \in DOMAIN @ \cup {key} |->
                                             IF k = key
                                             THEN [source |-> id, lastModified |-> st.now]
                                             ELSE @[k]],
                                !.source[r] = id]
               ELSE st1
    IN IF build /\ fetchThrows
       THEN catchError([st2 EXCEPT !.source[r] = st1.source[r]], r, "FetchError")
       ELSE IF shouldConnect(st, r) THEN connect(disconnect(st2, r), r, sy) ELSE st2

\* A fetch that also writes lastModified when it reuses the cached stream
fetch_touch(st, r, p, fetchThrows, sy) ==
    IF SerializeThrows(p) THEN catchError(st, r, "SerializeError")
    ELSE
    LET key == getCacheKey(p)
        hasCache == key \in DOMAIN st.cache
        shouldDedupe ==
            isWithinDedupeInterval(DedupeMs(st.options),
                                   IF hasCache THEN st.cache[key].lastModified ELSE NoTime,
                                   st.now)
        st1 == [st EXCEPT !.state[r] = "READY",
                          !.params[r] = p,
                          !.cacheKey[r] = key,
                          !.source[r] = IF hasCache THEN st.cache[key].source ELSE @,
                          !.cache = [k \in DOMAIN @ |->
                                       IF k = key
                                       THEN [@[k] EXCEPT !.lastModified = st.now]
                                       ELSE @[k]]]
        build == shouldBuild(st.options.immutable, hasCache, shouldDedupe)
        id == NewId(st)
        st2 == IF build
               THEN [st1 EXCEPT !.log.invoked = Append(@, key),
                                !.streams = PutStream(@, id, NewStream(p, key, st.now)),
                                !.cache = [k \in DOMAIN @ \cup {key} |->
                                             IF k = key
                                             THEN [source |-> id, lastModified |-> st.now]
                                             ELSE @[k]],
                                !.source[r] = id]
               ELSE st1
    IN IF build /\ fetchThrows
       THEN catchError([st EXCEPT !.state[r] = "READY",
                                  !.params[r] = p,
                                  !.cacheKey[r] = key,
                                  !.source[r] = IF hasCache THEN st.cache[key].source ELSE @,
                                  !.log.invoked = Append(@, key)],
                       r, "FetchError")
       ELSE IF shouldConnect(st, r) THEN connect(disconnect(st2, r), r, sy) ELSE st2

\* Resource.fetch.  fetchThrows: this.fetchable.fetch(...params) throws.
fetch(st, r, p, fetchThrows, sy) ==
    IF SerializeThrows(p) THEN catchError(st, r, "SerializeError")
    ELSE
    LET key == getCacheKey(p)
        hasCache == key \in DOMAIN st.cache
        shouldDedupe ==
            isWithinDedupeInterval(DedupeMs(st.options),
                                   IF hasCache THEN st.cache[key].lastModified ELSE NoTime,
                                   st.now)
        st1 == [st EXCEPT !.state[r] = "READY",
                          !.params[r] = p,
                          !.cacheKey[r] = key,
                          !.source[r] = IF hasCache THEN st.cache[key].source ELSE @]
        build == shouldBuild(st.options.immutable, hasCache, shouldDedupe)
        id == NewId(st)
        st2 == IF build
               THEN [st1 EXCEPT !.log.invoked = Append(@, key),
                                !.streams = PutStream(@, id, NewStream(p, key, st.now)),
                                !.cache = [k \in DOMAIN @ \cup {key} |->
                                             IF k = key
                                             THEN [source |-> id, lastModified |-> st.now]
                                             ELSE @[k]],
                                !.source[r] = id]
               ELSE st1
    IN IF build /\ fetchThrows
       THEN catchError([st1 EXCEPT !.log.invoked = Append(@, key)], r, "FetchError")
       ELSE IF shouldConnect(st, r) THEN connect(disconnect(st2, r), r, sy) ELSE st2

\* A read that reconnects a resource in state ERROR after reporting
read_reconnectOnError(st, r, sy) ==
    CASE st.state[r] = "ERROR" ->
           connect(disconnect([st EXCEPT !.log.handled = Append(@, st.thrownError[r])],
                              r),
                   r, sy)
      [] st.state[r] = "READY" -> connect(st, r, sy)
      [] OTHER -> st

\* Resource.read: the state after the call; the value it returns is #value
read(st, r, sy) ==
    CASE st.state[r] = "ERROR" ->
           [st EXCEPT !.log.handled = Append(@, st.thrownError[r])]
      [] st.state[r] = "READY" -> connect(st, r, sy)
      [] OTHER -> st

\* A revalidate that never fetches
revalidate_never(st, r, fetchThrows, sy) == st

\* Resource.revalidate
revalidate(st, r, fetchThrows, sy) ==
    IF st.params[r] # NoParams THEN fetch(st, r, st.params[r], fetchThrows, sy) ELSE st

\* An invalidate that clears the cache whatever its argument is
invalidate_clearAlways(st, r, all) == [st EXCEPT !.cache = EmptyMap]

\* Resource.invalidate
invalidate(st, r, all) ==
    IF all THEN [st EXCEPT !.cache = EmptyMap]
    ELSE [st EXCEPT !.cache = [k \in DOMAIN @ \ {st.cacheKey[r]} |-> @[k]]]

\* A timer callback that clears pending
slowTimeout_clearPending(st, r) ==
    emit(st, r, "SLOW", st.value[r], FALSE, st.thrownError[r])

\* Resource.slow, the callback of the timer armed by connect
slowTimeout(st, r) ==
    emit(st, r, "SLOW", st.value[r], st.pending[r], st.thrownError[r])

\* A loop that stops after the first resource of the set
RevalidateEach_first(st, rs, fetchThrows, sy) ==
    IF rs = <<>> THEN st
    ELSE revalidate([st EXCEPT !.log.revalidated = Append(@, Head(rs))],
                    Head(rs), fetchThrows, sy)

\* for (const resource of Array.from(this.resources)) resource.revalidate()
RECURSIVE RevalidateEach(_, _, _, _)
RevalidateEach(st, rs, fetchThrows, sy) ==
    IF rs = <<>> THEN st
    ELSE RevalidateEach(revalidate([st EXCEPT !.log.revalidated = Append(@, Head(rs))],
                                   Head(rs), fetchThrows, sy),
                        Tail(rs), fetchThrows, sy)

\* RevalidateOnFocus.handleEvent
focusHandleEvent(st, visibilityState, fetchThrows, sy) ==
    IF visibilityState = "visible"
    THEN RevalidateEach(st, st.focusResources, fetchThrows, sy)
    ELSE st

\* RevalidateOnReconnect.handleEvent
onlineHandleEvent(st, fetchThrows, sy) ==
    RevalidateEach(st, st.onlineResources, fetchThrows, sy)

----------------------------------------------------------------------------
(* Initial state: the resources as their constructor leaves them, the      *)
(* class cache as CacheRegistry.get creates it, and one choice of options. *)

OptionChoices ==
    [immutable : BOOLEAN,
     dedupeMs : {NoOption, 0},
     timeoutMs : {1000},
     features : {<<"RevalidateOnFocus", "RevalidateOnReconnect">>}]

InitWith(insts, opts, n) ==
    /\ instances = insts
    /\ steps = 0
    /\ budget = n
    /\ state = [r \in Resources |-> "EMPTY"]
    /\ value = [r \in Resources |-> NoValue]
    /\ thrownError = [r \in Resources |-> NoError]
    /\ pending = [r \in Resources |-> FALSE]
    /\ slow = [r \in Resources |-> FALSE]
    /\ params = [r \in Resources |-> NoParams]
    /\ cacheKey = [r \in Resources |-> NoKey]
    /\ source = [r \in Resources |-> EmptyStream]
    /\ connected = [r \in Resources |-> FALSE]
    /\ subscription = [r \in Resources |-> NoSub]
    /\ timers = [r \in Resources |-> {}]
    /\ cache = EmptyMap
    /\ streams = <<>>
    /\ now = 0
    /\ focusResources = <<>>
    /\ onlineResources = <<>>
    /\ options \in opts
    /\ lastValue = [r \in Resources |-> NoValue]
    /\ registry = EmptyMap
    /\ caches = <<>>
    /\ classOf = [r \in Resources |-> NoClass]
    /\ cacheOf = [r \in Resources |-> NoCache]
    /\ legs = [r \in Resources |-> {}]
    /\ observers = [r \in Resources |-> 0]
    /\ destroyed = [r \in Resources |-> FALSE]
    /\ intervals = [r \in Resources |-> NoTimer]
    /\ armed = [r \in Resources |-> {}]
    /\ leaked = [r \in Resources |-> <<>>]
    /\ watchers = [r \in Resources |-> 0]

\* The value most recently delivered to r, given the deliveries of a step
RECURSIVE LastDelivered(_, _, _)
LastDelivered(d, r, old) ==
    IF d = <<>> THEN old
    ELSE LET e == d[Len(d)]
         IN IF e[1] = r /\ e[2] = "next" THEN e[3]
            ELSE LastDelivered(SubSeq(d, 1, Len(d) - 1), r, old)

\* One resource of the class
Init == InitWith({1}, OptionChoices, MaxSteps)

\* Two resources of the class
InitShared == InitWith(Resources, OptionChoices, MaxSharedSteps)

\* The step that takes the program to state st, with the streams ss
Step(st, ss) ==
    /\ Len(st.streams) <= MaxStreams
    /\ steps < budget
    /\ steps' = steps + 1
    /\ UNCHANGED <<instances, budget, registry, classOf, cacheOf>>
    /\ caches' = st.caches
    /\ legs' = st.legs
    /\ observers' = st.observers
    /\ destroyed' = st.destroyed
    /\ intervals' = st.intervals
    /\ armed' = st.armed
    /\ leaked' = st.leaked
    /\ watchers' = st.watchers
    /\ state' = st.state
    /\ value' = st.value
    /\ thrownError' = st.thrownError
    /\ pending' = st.pending
    /\ slow' = st.slow
    /\ params' = st.params
    /\ cacheKey' = st.cacheKey
    /\ source' = st.source
    /\ connected' = st.connected
    /\ subscription' = st.subscription
    /\ timers' = st.timers
    /\ cache' = st.cache
    /\ streams' = ss
    /\ now' = st.now
    /\ focusResources' = st.focusResources
    /\ onlineResources' = st.onlineResources
    /\ options' = options
    /\ lastValue' = [x \in Resources |-> LastDelivered(st.log.delivered, x, lastValue[x])]

\* The step that takes the program to state st
Apply(st) == Step(st, Collect(st).streams)

----------------------------------------------------------------------------
(* The environment of a step: whether Fetchable.fetch throws when it is    *)
(* called, and what a source does synchronously when it is subscribed.     *)

SyncNone == "none"

Env == [fetchThrows : BOOLEAN, sy : Sync]

\* Some source was subscribed on the way from st to st1
Started(st, st1) ==
    \E s \in 1..Len(st1.streams) :
        /\ st1.streams[s].phase = "open"
        /\ \/ s > Len(st.streams)
           \/ st.streams[s].phase # "open"
           \/ st.streams[s].born # st1.streams[s].born

\* The environments that make a difference to a step, given its outcome
\* st1 when nothing throws and nothing is emitted synchronously
EnvFor(st, st1) ==
    {e \in Env :
        /\ e.fetchThrows => (st1.log.invoked # <<>> /\ e.sy = SyncNone)
        /\ e.sy # SyncNone => Started(st, st1)}

----------------------------------------------------------------------------
(* Actions: the public operations *)

Fetch(r, p) ==
    \E e \in EnvFor(S, fetch(S, r, p, FALSE, SyncNone)) :
        Apply(fetch(S, r, p, e.fetchThrows, e.sy))

Read(r) ==
    \E e \in EnvFor(S, read(S, r, SyncNone)) :
        Apply(read(S, r, e.sy))

Connect(r) ==
    \E e \in EnvFor(S, connect(S, r, SyncNone)) :
        Apply(connect(S, r, e.sy))

Disconnect(r) ==
    Apply(disconnect(S, r))

Revalidate(r) ==
    \E e \in EnvFor(S, revalidate(S, r, FALSE, SyncNone)) :
        Apply(revalidate(S, r, e.fetchThrows, e.sy))

Invalidate(r, all) ==
    Apply(invalidate(S, r, all))

(* Actions: events *)

\* the source of stream s emits its value
StreamNext(s) ==
    /\ s \in 1..Len(streams)
    /\ streams[s].phase = "open"
    /\ Apply(NextAll(DeliverLeaked([S EXCEPT !.streams[s].buf = streams[s].data],
                                   LeakedTo(S, s), "next", streams[s].data),
                     Subscribers(S, s), streams[s].data))

\* the source of stream s fails
StreamError(s) ==
    /\ s \in 1..Len(streams)
    /\ streams[s].phase = "open"
    /\ Apply(ErrorAll(Unleak(DeliverLeaked([S EXCEPT !.streams[s].phase = "idle",
                                                      !.streams[s].buf = NoValue],
                                            LeakedTo(S, s), "error", NoValue), s),
                      Subscribers(S, s)))

\* the source of stream s completes
StreamComplete(s) ==
    /\ s \in 1..Len(streams)
    /\ streams[s].phase = "open"
    /\ Apply(CompleteAll(Unleak(DeliverLeaked([S EXCEPT !.streams[s].phase = "complete"],
                                               LeakedTo(S, s), "complete", NoValue), s),
                         Subscribers(S, s)))

\* a timer armed by connect comes due
SlowTimer(r) ==
    \E due \in timers[r] :
        /\ due <= now
        /\ Apply(slowTimeout([S EXCEPT !.timers[r] = @ \ {due}], r))

\* the document's visibilitychange event
VisibilityChange(visibilityState) ==
    \E e \in EnvFor(S, focusHandleEvent(S, visibilityState, FALSE, SyncNone)) :
        Apply(focusHandleEvent(S, visibilityState, e.fetchThrows, e.sy))

\* the window's online event
Online ==
    \E e \in EnvFor(S, onlineHandleEvent(S, FALSE, SyncNone)) :
        Apply(onlineHandleEvent(S, e.fetchThrows, e.sy))

\* n ticks pass; a timer runs when it is due, before the clock moves on
Tick(n) ==
    /\ now + n * TickMs <= MaxTicks * TickMs
    /\ \A r \in Resources : \A due \in timers[r] : due > now + (n - 1) * TickMs
    /\ \A r \in Resources :
          \A t \in armed[r] : t.due > now + (n - 1) * TickMs
    /\ Apply([S EXCEPT !.now = @ + n * TickMs])

Next ==
    \/ \E r \in instances, p \in Params : Fetch(r, p)
    \/ \E r \in instances : Read(r)
    \/ \E r \in instances : Connect(r)
    \/ \E r \in instances : Disconnect(r)
    \/ \E r \in instances : Revalidate(r)
    \/ \E r \in instances, all \in BOOLEAN : Invalidate(r, all)
    \/ \E s \in 1..MaxStreams : StreamNext(s)
    \/ \E s \in 1..MaxStreams : StreamError(s)
    \/ \E s \in 1..MaxStreams : StreamComplete(s)
    \/ \E r \in instances : SlowTimer(r)
    \/ \E vis \in {"visible", "hidden"} : VisibilityChange(vis)
    \/ Online
    \/ \E n \in 1..MaxTicks : Tick(n)

Spec == Init /\ [][Next]_vars

----------------------------------------------------------------------------
(* Resources of several classes: each is constructed through the           *)
(* CacheRegistry, and its operations read and write the mapping it got.    *)

\* CacheRegistry.get with the default cacheStrategy, a new Map
CacheRegistryGet_alwaysNew(reg, maps, target) ==
    [registry |-> (target :> Len(maps) + 1) @@ reg,
     caches |-> Append(maps, EmptyMap),
     cache |-> Len(maps) + 1]

CacheRegistryGet(reg, maps, target) ==
    IF target \in DOMAIN reg
    THEN [registry |-> reg, caches |-> maps, cache |-> reg[target]]
    ELSE [registry |-> (target :> Len(maps) + 1) @@ reg,
          caches |-> Append(maps, EmptyMap),
          cache |-> Len(maps) + 1]

\* this.cache of resource r stands in for the cache of the step
onClass(st, r) ==
    [st EXCEPT !.cache = st.caches[cacheOf[r]]]

\* what the step did to this.cache is what it did to r's mapping
offClass(st, r) ==
    [st EXCEPT !.caches[cacheOf[r]] = st.cache, !.cache = cache]

\* the options of the classes: no features
ClassOptionChoices ==
    [immutable : BOOLEAN, dedupeMs : {NoOption}, timeoutMs : {1000},
     features : {<<>>}]

InitClasses == InitWith({}, ClassOptionChoices, MaxClassSteps)

\* new target(): the constructor of Resource
Construct(r, target) ==
    /\ r \notin instances
    /\ steps < budget
    /\ steps' = steps + 1
    /\ instances' = instances \cup {r}
    /\ classOf' = [classOf EXCEPT ![r] = target]
    /\ LET got == CacheRegistryGet(registry, caches, target)
       IN /\ registry' = got.registry
          /\ caches' = got.caches
          /\ cacheOf' = [cacheOf EXCEPT ![r] = got.cache]
    /\ UNCHANGED <<state, value, thrownError, pending, slow, params, cacheKey,
                   source, connected, subscription, timers, cache, streams,
                   now, focusResources, onlineResources, options, budget,
                   lastValue, legs, observers, destroyed, intervals, armed,
                   watchers, leaked>>

FetchOf(r, p) ==
    \E e \in EnvFor(onClass(S, r), fetch(onClass(S, r), r, p, FALSE, SyncNone)) :
        Apply(offClass(fetch(onClass(S, r), r, p, e.fetchThrows, e.sy), r))

RevalidateOf(r) ==
    \E e \in EnvFor(onClass(S, r), revalidate(onClass(S, r), r, FALSE, SyncNone)) :
        Apply(offClass(revalidate(onClass(S, r), r, e.fetchThrows, e.sy), r))

InvalidateOf(r, all) ==
    Apply(offClass(invalidate(onClass(S, r), r, all), r))

NextClasses ==
    \/ \E r \in Resources, target \in Classes : Construct(r, target)
    \/ \E r \in instances, p \in Params : FetchOf(r, p)
    \/ \E r \in instances : Read(r)
    \/ \E r \in instances : Connect(r)
    \/ \E r \in instances : Disconnect(r)
    \/ \E r \in instances : RevalidateOf(r)
    \/ \E r \in instances, all \in BOOLEAN : InvalidateOf(r, all)
    \/ \E s \in 1..MaxStreams : StreamNext(s)
    \/ \E s \in 1..MaxStreams : StreamError(s)
    \/ \E s \in 1..MaxStreams : StreamComplete(s)
    \/ \E r \in instances : SlowTimer(r)
    \/ \E n \in 1..MaxTicks : Tick(n)

SpecClasses == InitClasses /\ [][NextClasses]_vars

----------------------------------------------------------------------------
(* The merging variant of projects/resource/src/resource.ts.  Its cache    *)
(* maps a key to a stream and the key followed by 'dedupe' to the time the *)
(* stream was built.  createFetchObservable(cacheKey, previous, source)    *)
(* returns merge(previous.pipe(takeUntil(next), catchError(...)), next)    *)
(* with next = source.pipe(shareReplay(1)): a subscriber gets the events   *)
(* of the previous stream until next emits, and then those of next.  The   *)
(* sources of this variant emit nothing while they are being subscribed.   *)

\* cacheKey + 'dedupe'
DedupeKey(key) == key \o "dedupe"

\* Date.now() - then < dedupeIntervalMs; then is undefined without an entry
isWithinDedupeInterval2(then, dedupeIntervalMs, dateNow) ==
    then # NoTime /\ dateNow - then < dedupeIntervalMs

\* createFetchObservable: next, and the previous stream it is merged with
createFetchObservable2(p, key, dateNow, previous) ==
    [key |-> key, data |-> FetchValue(p), born |-> dateNow,
     phase |-> "idle", buf |-> NoValue, prev |-> previous]

\* The streams that stream s is merged with, directly or through others
RECURSIVE Previous(_, _)
Previous(ss, s) ==
    IF s = EmptyStream \/ ss[s].prev = EmptyStream THEN {}
    ELSE {ss[s].prev} \cup Previous(ss, ss[s].prev)

\* merge(previous, next).subscribe: takeUntil subscribes to next, which
\* subscribes the source of x at the first time; when next has a value to
\* replay, previous is never subscribed; otherwise previous is subscribed
\* before next is.
RECURSIVE SubscribeMerged(_, _, _)
SubscribeMerged(st, r, x) ==
    IF x = EmptyStream THEN st
    ELSE LET str == st.streams[x]
             started == IF str.phase = "idle"
                        THEN [st EXCEPT !.streams[x].phase = "open"]
                        ELSE st
             st1 == IF str.buf # NoValue
                    THEN ObserverNext(started, r, str.buf)
                    ELSE SubscribeMerged(started, r, str.prev)
         IN IF str.phase = "complete" THEN st1
            ELSE [st1 EXCEPT !.legs[r] = @ \cup {x}]

\* this.source.subscribe(this.observer)
Subscribe2(st, r) ==
    LET st1 == SubscribeMerged([st EXCEPT !.legs[r] = {}], r, st.source[r])
    IN IF st1.legs[r] = {} THEN ObserverComplete(st1, r)
       ELSE [st1 EXCEPT !.subscription[r] = st.source[r]]

\* Resource.connect: the features are told after the subscription
connect2(st, r) ==
    IF st.connected[r] THEN st
    ELSE LET timeoutMs == st.options.timeoutMs
             st1 == [st EXCEPT !.connected[r] = TRUE,
                               !.thrownError[r] = NoError,
                               !.pending[r] = TRUE,
                               !.timers[r] = IF timeoutMs # NoOption /\ timeoutMs # 0
                                             THEN @ \cup {st.now + timeoutMs}
                                             ELSE @]
         IN ConnectHooks(Subscribe2(st1, r), r, st.options.features)

\* Resource.disconnect
disconnect2(st, r) ==
    IF ~st.connected[r] THEN st
    ELSE DisconnectHooks([st EXCEPT !.connected[r] = FALSE,
                                    !.subscription[r] = NoSub,
                                    !.legs[r] = {}],
                         r, st.options.features)

\* Resource.fetch.  fetchThrows: this.fetchable.fetch(...params) throws.
fetch2(st, r, p, fetchThrows) ==
    IF SerializeThrows(p) THEN catchError(st, r, "SerializeError")
    ELSE
    LET key == getCacheKey(p)
        hasCache == key \in DOMAIN st.cache
        shouldDedupe ==
            isWithinDedupeInterval2(IF DedupeKey(key) \in DOMAIN st.cache
                                    THEN st.cache[DedupeKey(key)] ELSE NoTime,
                                    DedupeMs(st.options), st.now)
        st1 == [st EXCEPT !.state[r] = "READY",
                          !.params[r] = p,
                          !.source[r] = IF hasCache THEN st.cache[key] ELSE @]
        build == shouldBuild(st.options.immutable, hasCache, shouldDedupe)
        id == Len(st.streams) + 1
        st2 == IF build
               THEN [st1 EXCEPT !.log.invoked = Append(@, key),
                                !.streams = Append(@,
                                    createFetchObservable2(p, key, st.now, st1.source[r])),
                                !.cache = [k \in DOMAIN @ \cup {key, DedupeKey(key)} |->
                                             IF k = key THEN id
                                             ELSE IF k = DedupeKey(key) THEN st.now
                                             ELSE @[k]],
                                !.source[r] = id]
               ELSE st1
    IN IF build /\ fetchThrows
       THEN catchError([st1 EXCEPT !.log.invoked = Append(@, key)], r, "FetchError")
       ELSE IF shouldConnect(st, r) THEN connect2(disconnect2(st2, r), r) ELSE st2

\* Resource.read
read2(st, r) ==
    CASE st.state[r] = "ERROR" ->
           [st EXCEPT !.log.handled = Append(@, st.thrownError[r])]
      [] st.state[r] = "READY" -> connect2(st, r)
      [] OTHER -> st

\* Resource.revalidate
revalidate2(st, r, fetchThrows) ==
    IF st.params[r] # NoParams THEN fetch2(st, r, st.params[r], fetchThrows) ELSE st

\* Resource.invalidate; without params the key is undefined and no entry goes
invalidate2(st, r, all) ==
    IF all THEN [st EXCEPT !.cache = EmptyMap]
    ELSE IF st.params[r] = NoParams THEN st
    ELSE LET key == getCacheKey(st.params[r])
         IN [st EXCEPT !.cache = [k \in DOMAIN @ \ {key, DedupeKey(key)} |-> @[k]]]

\* The resources whose subscription listens to stream s
Listeners(st, s) == {r \in Resources : s \in st.legs[r]}

\* next of stream s emits to r: takeUntil ends what s was merged with, then
\* the value reaches the observer
LegNext(st, r, s) ==
    ObserverNext([st EXCEPT !.legs[r] = @ \ Previous(st.streams, s)],
                 r, st.streams[s].data)

\* next of stream s fails: while r still listens to a previous stream of s,
\* takeUntil passes the error to catchError, which hands it to handleError;
\* then the merged stream of s fails, which the observer is told when s is
\* the source of r, and which catchError hands to handleError otherwise
LegError(st, r, s) ==
    LET older == Previous(st.streams, s) \cap st.legs[r]
        st1 == IF older # {}
               THEN [st EXCEPT !.log.handled = Append(@, "StreamError")]
               ELSE st
        left == st.legs[r] \ (Previous(st.streams, s) \cup {s})
    IN IF s = st.subscription[r]
       THEN ObserverError([st1 EXCEPT !.legs[r] = {}], r, "StreamError")
       ELSE LET st2 == [st1 EXCEPT !.log.handled = Append(@, "StreamError"),
                                   !.legs[r] = left]
            IN IF left = {} THEN ObserverComplete(st2, r) ELSE st2

\* next of stream s completes: the merged stream of r completes when
\* nothing it listens to is left
LegComplete(st, r, s) ==
    LET st1 == [st EXCEPT !.legs[r] = @ \ {s}]
    IN IF st1.legs[r] = {} THEN ObserverComplete(st1, r) ELSE st1

RECURSIVE LegAll(_, _, _, _)
LegAll(st, rs, s, kind) ==
    IF rs = {} THEN st
    ELSE LET r == CHOOSE x \in rs : \A y \in rs : x <= y
             st1 == CASE kind = "next" -> LegNext(st, r, s)
                      [] kind = "error" -> LegError(st, r, s)
                      [] kind = "complete" -> LegComplete(st, r, s)
         IN LegAll(st1, rs \ {r}, s, kind)

\* What the event kind of the source of stream s does
StreamEvent2(st, s, kind) ==
    CASE kind = "next" ->
           LegAll([st EXCEPT !.streams[s].buf = st.streams[s].data],
                  Listeners(st, s), s, kind)
      [] kind = "error" ->
           LegAll([st EXCEPT !.streams[s].phase = "idle",
                             !.streams[s].buf = NoValue],
                  Listeners(st, s), s, kind)
      [] kind = "complete" ->
           LegAll([st EXCEPT !.streams[s].phase = "complete"],
                  Listeners(st, s), s, kind)

\* the options of the merging variant: no timeout, no features
MergeOptionChoices ==
    [immutable : BOOLEAN, dedupeMs : {NoOption, 0}, timeoutMs : {NoOption},
     features : {<<>>}]

InitMerge == InitWith({1}, MergeOptionChoices, MaxMergeSteps)

\* The step that takes the merging variant to state st
Apply2(st) == Step(st, st.streams)

Fetch2(r, p) ==
    \E fetchThrows \in BOOLEAN :
        /\ fetchThrows => fetch2(S, r, p, FALSE).log.invoked # <<>>
        /\ Apply2(fetch2(S, r, p, fetchThrows))

Read2(r) == Apply2(read2(S, r))

Disconnect2(r) == Apply2(disconnect2(S, r))

Revalidate2(r) ==
    \E fetchThrows \in BOOLEAN :
        /\ fetchThrows => revalidate2(S, r, FALSE).log.invoked # <<>>
        /\ Apply2(revalidate2(S, r, fetchThrows))

Invalidate2(r, all) == Apply2(invalidate2(S, r, all))

\* the source of stream s emits its value, fails or completes
StreamNext2(s) ==
    /\ s \in 1..Len(streams)
    /\ streams[s].phase = "open"
    /\ Apply2(StreamEvent2(S, s, "next"))

StreamError2(s) ==
    /\ s \in 1..Len(streams)
    /\ streams[s].phase = "open"
    /\ Apply2(StreamEvent2(S, s, "error"))

StreamComplete2(s) ==
    /\ s \in 1..Len(streams)
    /\ streams[s].phase = "open"
    /\ Apply2(StreamEvent2(S, s, "complete"))

Tick2(n) ==
    /\ now + n * TickMs <= MaxTicks * TickMs
    /\ Apply2([S EXCEPT !.now = @ + n * TickMs])

NextMerge ==
    \/ \E r \in instances, p \in Params : Fetch2(r, p)
    \/ \E r \in instances : Read2(r)
    \/ \E r \in instances : Disconnect2(r)
    \/ \E r \in instances : Revalidate2(r)
    \/ \E r \in instances, all \in BOOLEAN : Invalidate2(r, all)
    \/ \E s \in 1..MaxStreams : StreamNext2(s)
    \/ \E s \in 1..MaxStreams : StreamError2(s)
    \/ \E s \in 1..MaxStreams : StreamComplete2(s)
    \/ \E n \in 1..MaxTicks : Tick2(n)

SpecMerge == InitMerge /\ [][NextMerge]_vars

SpecShared == InitShared /\ [][Next]_vars

----------------------------------------------------------------------------
(* The value-caching variant of projects/resource/src/resource.ts (its      *)
(* first Resource class).  Its cache maps a key to the last value that a    *)
(* stream tagged with that key delivered; a stream is what Fetchable.fetch  *)
(* returned, mapped to pairs [cacheKey, value], and is not shared.          *)

\* getCacheKey(): serialize(this.params); undefined while there are no params
getCacheKey1(st, r) ==
    IF st.params[r] = NoParams THEN NoKey ELSE getCacheKey(st.params[r])

\* ResourceSubject.next([cacheKey, value])
next1(st, r, key, v) ==
    [st EXCEPT !.value[r] = v,
               !.state[r] = "ACTIVE",
               !.pending[r] = FALSE,
               !.cache = IF key # NoKey
                         THEN [k \in DOMAIN @ \cup {key} |-> IF k = key THEN v ELSE @[k]]
                         ELSE @,
               !.log.delivered = Append(@, <<r, "next", v>>),
               !.log.notified = Append(Append(@, <<r, "markForCheck">>),
                                       <<r, "broadcast">>)]

\* ResourceSubject.error
error1(st, r, err) ==
    [st EXCEPT !.state[r] = "ERROR",
               !.pending[r] = FALSE,
               !.thrownError[r] = err,
               !.log.notified = Append(@, <<r, "broadcast">>)]

\* ResourceSubject.complete
complete1(st, r) ==
    [st EXCEPT !.state[r] = "COMPLETE",
               !.pending[r] = FALSE,
               !.log.notified = Append(@, <<r, "broadcast">>)]

\* Resource.connect: the source is subscribed before the hooks run
connect1(st, r) ==
    IF st.connected[r] THEN st
    ELSE LET s == st.source[r]
             st1 == [st EXCEPT !.connected[r] = TRUE,
                               !.thrownError[r] = NoError,
                               !.pending[r] = TRUE,
                               !.log.subscribed = Append(@, <<r, s>>)]
             st2 == IF s = EmptyStream THEN complete1(st1, r)
                    ELSE [st1 EXCEPT !.subscription[r] = s,
                                     !.streams[s].phase = "open"]
         IN ConnectHooks(st2, r, st.options.features)

\* Resource.disconnect
disconnect1(st, r) ==
    IF ~st.connected[r] THEN st
    ELSE DisconnectHooks([st EXCEPT !.connected[r] = FALSE,
                                    !.subscription[r] = NoSub,
                                    !.log.unsubscribed =
                                        Append(@, <<r, st.subscription[r]>>)],
                         r, st.options.features)

\* Resource.fetch: the cache key is computed before this.params is assigned
fetch1(st, r, p, fetchThrows) ==
    IF st.params[r] # NoParams /\ SerializeThrows(st.params[r])
    THEN error1([st EXCEPT !.log.threw = "SerializeError"], r, "SerializeError")
    ELSE
    LET key == getCacheKey1(st, r)
        hasCache == key \in DOMAIN st.cache
        st1 == [st EXCEPT !.params[r] = p]
        st2 == IF hasCache THEN next1(st1, r, NoKey, st.cache[key]) ELSE st1
        id == NewId(st2)
        st3 == [st2 EXCEPT !.state[r] = "READY",
                           !.log.invoked = Append(@, p),
                           !.streams = PutStream(@, id, NewStream(p, key, st.now)),
                           !.source[r] = id]
    IN IF ~st.options.immutable \/ ~hasCache
       THEN IF fetchThrows
            THEN error1([st2 EXCEPT !.state[r] = "READY",
                                    !.log.invoked = Append(@, p),
                                    !.log.threw = "FetchError"],
                        r, "FetchError")
            ELSE IF st.state[r] # "EMPTY"
                 THEN connect1(disconnect1(st3, r), r)
                 ELSE st3
       ELSE st2

\* Resource.read
read1(st, r) ==
    CASE st.state[r] = "ERROR" ->
           [st EXCEPT !.log.handled = Append(@, st.thrownError[r])]
      [] st.state[r] = "READY" -> connect1(st, r)
      [] OTHER -> st

\* Resource.revalidate
revalidate1(st, r, fetchThrows) ==
    IF st.params[r] # NoParams THEN fetch1(st, r, st.params[r], fetchThrows) ELSE st

\* Resource.invalidate; getCacheKey() throws to the caller when the params
\* cannot be serialized, and nothing is deleted
invalidate1(st, r, all) ==
    IF all THEN [st EXCEPT !.cache = EmptyMap]
    ELSE IF st.params[r] # NoParams /\ SerializeThrows(st.params[r])
         THEN [st EXCEPT !.log.threw = "SerializeError"]
         ELSE [st EXCEPT !.cache = [k \in DOMAIN @ \ {getCacheKey1(st, r)} |-> @[k]]]

\* what stream s tells the resource subscribed to it
StreamEvent1(st, s, kind) ==
    LET r == CHOOSE x \in Resources : st.subscription[x] = s
    IN CASE kind = "next" -> next1(st, r, st.streams[s].key, st.streams[s].data)
         [] kind = "error" ->
              error1([st EXCEPT !.subscription[r] = NoSub,
                                !.streams[s].phase = "idle"], r, "StreamError")
         [] kind = "complete" ->
              complete1([st EXCEPT !.subscription[r] = NoSub,
                                   !.streams[s].phase = "idle"], r)

ValueOptionChoices ==
    [immutable : BOOLEAN, dedupeMs : {NoOption}, timeoutMs : {NoOption},
     features : {<<>>}]

InitValue == InitWith({1}, ValueOptionChoices, MaxValueSteps)

\* The step that takes the value-caching variant to state st; a stream
\* that the resource neither holds nor is subscribed to is gone
Apply1(st) ==
    Step(st, [s \in DOMAIN st.streams |->
                IF \E r \in Resources : s \in {st.source[r], st.subscription[r]}
                THEN st.streams[s] ELSE DeadStream])

Fetch1(r, p) ==
    \E fetchThrows \in BOOLEAN :
        /\ fetchThrows => fetch1(S, r, p, FALSE).log.invoked # <<>>
        /\ Apply1(fetch1(S, r, p, fetchThrows))

Read1(r) == Apply1(read1(S, r))

Disconnect1(r) == Apply1(disconnect1(S, r))

Revalidate1(r) ==
    \E fetchThrows \in BOOLEAN :
        /\ fetchThrows => revalidate1(S, r, FALSE).log.invoked # <<>>
        /\ Apply1(revalidate1(S, r, fetchThrows))

Invalidate1(r, all) == Apply1(invalidate1(S, r, all))

\* the stream the resource is subscribed to emits, fails or completes
StreamEmits1(s, kind) ==
    /\ s \in 1..Len(streams)
    /\ \E r \in instances : subscription[r] = s
    /\ Apply1(StreamEvent1(S, s, kind))

NextValue ==
    \/ \E r \in instances, p \in Params : Fetch1(r, p)
    \/ \E r \in instances : Read1(r)
    \/ \E r \in instances : Disconnect1(r)
    \/ \E r \in instances : Revalidate1(r)
    \/ \E r \in instances, all \in BOOLEAN : Invalidate1(r, all)
    \/ \E s \in 1..MaxStreams, kind \in {"next", "error", "complete"} :
          StreamEmits1(s, kind)

SpecValue == InitValue /\ [][NextValue]_vars

\* A class created with { cache: false }: ResourceOptions takes any other
\* key, and no code reads this one
NoCacheOptionChoices ==
    [immutable : {FALSE}, dedupeMs : {NoOption, 0}, timeoutMs : {1000},
     features : {<<"RevalidateOnFocus", "RevalidateOnReconnect">>},
     cache : {FALSE}]

InitNoCache == InitWith({1}, NoCacheOptionChoices, MaxSteps)

SpecNoCache == InitNoCache /\ [][Next]_vars

----------------------------------------------------------------------------
(* The life of a resource: the hooks of its features, the subscriptions to *)
(* its state changes, and its destruction.                                 *)

\* for (const [feature, options] of this.features) feature.onInit?.(...)
RECURSIVE InitHooks(_, _, _)
InitHooks(st, r, fs) ==
    IF fs = <<>> THEN st
    ELSE InitHooks(CallHook(st, r, Head(fs), "onInit"), r, Tail(fs))

\* for (const [feature, options] of this.features) feature.onDestroy?.(...)
RECURSIVE DestroyHooks(_, _, _)
DestroyHooks(st, r, fs) ==
    IF fs = <<>> THEN st
    ELSE DestroyHooks(CallHook(st, r, Head(fs), "onDestroy"), r, Tail(fs))

\* A destruction that forgets to disconnect
ngOnDestroy_hooksOnly(st, r) ==
    DestroyHooks([st EXCEPT !.destroyed[r] = TRUE], r, st.options.features)

\* Resource.ngOnDestroy
ngOnDestroy(st, r) ==
    DestroyHooks([disconnect(st, r) EXCEPT !.destroyed[r] = TRUE],
                 r, st.options.features)

\* Resource.subscribe: this.asObservable().subscribe(observer)
subscribe(st, r) ==
    [st EXCEPT !.observers[r] = @ + 1]

\* subscription.unsubscribe() of a subscription that subscribe returned
unsubscribe(st, r) ==
    [st EXCEPT !.observers[r] = @ - 1]

\* the options of a class with the two revalidation features, or with two
\* features of the user
LifeOptionChoices ==
    [immutable : {FALSE}, dedupeMs : {NoOption, 0}, timeoutMs : {1000},
     features : {<<"RevalidateOnFocus", "RevalidateOnReconnect">>,
                 <<"CustomA", "CustomB">>}]

InitLife == InitWith({1}, LifeOptionChoices, MaxSteps)

\* Angular destroys the injector that provides the resource
Destroy(r) ==
    /\ ~destroyed[r]
    /\ Apply(ngOnDestroy(S, r))

\* somebody subscribes to the state changes of the resource
Observe(r) ==
    /\ observers[r] < MaxObservers
    /\ Apply(subscribe(S, r))

\* and unsubscribes
Unobserve(r) ==
    /\ observers[r] > 0
    /\ Apply(unsubscribe(S, r))

NextLife ==
    \/ Next
    \/ \E r \in instances : Destroy(r)
    \/ \E r \in instances : Observe(r)
    \/ \E r \in instances : Unobserve(r)

SpecLife == InitLife /\ [][NextLife]_vars

\* A class created with the feature revalidateOnInterval(interval)
IntervalOptionChoices ==
    [immutable : {FALSE},
     dedupeMs : {0},
     timeoutMs : {0, 1000},
     features : {<<"RevalidateOnInterval">>},
     interval : {0, TickMs}]

InitInterval == InitWith({1}, IntervalOptionChoices, MaxIntervalSteps)

\* setInterval's timer comes due: RevalidateOnInterval.revalidate(resource)
IntervalTimer(r) ==
    \E t \in armed[r] :
        /\ t.due <= now
        /\ LET st0 == [S EXCEPT !.armed[r] =
                           (@ \ {t}) \cup {[t EXCEPT !.due = @ + options.interval]}]
           IN \E e \in EnvFor(st0, revalidate(st0, r, FALSE, SyncNone)) :
                 Apply(revalidate(st0, r, e.fetchThrows, e.sy))

NextInterval ==
    \/ Next
    \/ \E r \in instances : IntervalTimer(r)
    \/ \E r \in instances : Destroy(r)

SpecInterval == InitInterval /\ [][NextInterval]_vars

\* Two resources of a class, and their lives
InitLifeShared == InitWith(Resources, LifeOptionChoices, MaxSharedSteps)

SpecLifeShared == InitLifeShared /\ [][NextLife]_vars

----------------------------------------------------------------------------
(* Properties.  A property about what an operation does is stated on the  *)
(* operation applied to every reachable state, under every environment.   *)

\* C1 (lazy subscription): a fetch() or revalidate() on a resource that is
\* not connected when it is called leaves it unconnected: it subscribes to
\* no stream, nothing is delivered to it, it does not become pending and no
\* onConnect hook adds it to a feature's set.
C1_LazySubscription ==
    \A r \in instances : \A e \in Env :
        ~connected[r] =>
            \A st \in {fetch(S, r, p, e.fetchThrows, e.sy) : p \in Params}
                      \cup {revalidate(S, r, e.fetchThrows, e.sy)} :
                /\ ~st.connected[r]
                /\ st.subscription[r] = NoSub
                /\ st.log.delivered = <<>>
                /\ st.pending[r] => pending[r]
                /\ st.focusResources = focusResources
                /\ st.onlineResources = onlineResources

\* The time of the last stream construction for key k, NoTime if none is known
LastBuilt(k) ==
    LET ts == {streams[s].born : s \in {x \in 1..Len(streams) : streams[x].key = k}}
    IN IF ts = {} THEN NoTime ELSE CHOOSE u \in ts : \A w \in ts : w <= u

\* What C2 says of a fetch of p, given whether it falls in the dedupe window
DedupeRule(r, p, e, within) ==
    LET k == getCacheKey(p)
        st == fetch(S, r, p, e.fetchThrows, e.sy)
    IN IF within
       THEN /\ st.log.invoked = <<>>
            /\ st.cache = cache
            /\ st.source[r] = cache[k].source
       ELSE /\ st.log.invoked = <<k>>
            /\ ~e.fetchThrows =>
                 /\ st.cache[k].lastModified = now
                 /\ st.source[r] = st.cache[k].source
                 /\ st.source[r] \notin {cache[x].source : x \in DOMAIN cache}

\* C2 (dedupe window, as the code has it): with immutable off and
\* dedupeMs = D > 0, a fetch of key K made less than D after the last stream
\* construction for K, whose cache entry is still there, invokes
\* Fetchable.fetch not at all and reuses the cached stream; every other fetch
\* of K (at least D after the last construction, or with no entry for K)
\* invokes Fetchable.fetch once and, if that returns, stores a new stream.
C2_DedupeWindow ==
    (~options.immutable /\ DedupeMs(options) > 0) =>
        \A r \in instances : \A p \in Params : \A e \in Env :
            ~SerializeThrows(p) =>
                DedupeRule(r, p, e,
                           /\ getCacheKey(p) \in DOMAIN cache
                           /\ now - LastBuilt(getCacheKey(p)) < DedupeMs(options))

\* C2 as stated: with immutable off and dedupeMs = D > 0, a fetch of key K
\* made less than D after the last stream construction for K invokes
\* Fetchable.fetch not at all, so that the two fetches cause one construction;
\* a fetch of K at least D after the last construction builds a stream.
C2_DedupeWindowAsStated ==
    (~options.immutable /\ DedupeMs(options) > 0) =>
        \A r \in instances : \A p \in Params : \A e \in Env :
            ~SerializeThrows(p) =>
                DedupeRule(r, p, e,
                           /\ LastBuilt(getCacheKey(p)) # NoTime
                           /\ now - LastBuilt(getCacheKey(p)) < DedupeMs(options))

\* A fetch of [1] was deduped one tick after the stream was built,
\* although key [2] was fetched in between
C2_Witness ==
    /\ ~options.immutable
    /\ DedupeMs(options) > 0
    /\ now = TickMs
    /\ DOMAIN cache = {"[1]", "[2]"}
    /\ cache["[1]"].lastModified = 0
    /\ cache["[2]"].lastModified = TickMs
    /\ cacheKey[1] = "[1]"
    /\ source[1] = cache["[1]"].source

\* Fetchable.fetch was invoked for no key that the cache held before the
\* operation and, when it returned a stream, for no key again
NoneCached(st) ==
    \A i \in 1..Len(st.log.invoked) :
        /\ st.log.invoked[i] \notin DOMAIN cache
        /\ st.log.threw = NoError =>
             \A j \in 1..Len(st.log.invoked) :
                 st.log.invoked[j] = st.log.invoked[i] => j = i

\* C3 (immutable): with immutable: true, whatever dedupeMs is, no fetch() or
\* revalidate() on any instance of the class and no focus or reconnect signal
\* invokes Fetchable.fetch for a key that has an entry in the class cache.
C3_Immutable ==
    options.immutable =>
        \A e \in Env :
            /\ \A r \in instances : \A p \in Params :
                   NoneCached(fetch(S, r, p, e.fetchThrows, e.sy))
            /\ \A r \in instances : NoneCached(revalidate(S, r, e.fetchThrows, e.sy))
            /\ NoneCached(focusHandleEvent(S, "visible", e.fetchThrows, e.sy))
            /\ NoneCached(onlineHandleEvent(S, e.fetchThrows, e.sy))

\* With immutable on and dedupe disabled, both instances fetched [1] and use
\* the one stream that was built for it
C3_Witness ==
    /\ options.immutable
    /\ options.dedupeMs = 0
    /\ DOMAIN cache = {"[1]"}
    /\ \A r \in Resources : cacheKey[r] = "[1]" /\ source[r] = cache["[1]"].source
    /\ \A s \in 1..Len(streams) : s # cache["[1]"].source => streams[s].phase = "dead"

\* C4 (fetch never throws): fetch() raises to its caller in no state; when
\* the serializer or Fetchable.fetch throws inside it, it returns with
\* state = ERROR, thrownError = the thrown value and pending = false, and a
\* following read() passes that error to the error handler and changes nothing.
C4_FetchNeverThrows ==
    \A r \in instances : \A p \in Params : \A e \in Env :
        LET st == fetch(S, r, p, e.fetchThrows, e.sy)
            rd == read([st EXCEPT !.log = EmptyLog], r, e.sy)
        IN /\ st.log.threw # NoError <=>
                \/ SerializeThrows(p)
                \/ e.fetchThrows /\ st.log.invoked # <<>>
           /\ st.log.threw # NoError =>
                /\ st.state[r] = "ERROR"
                /\ st.thrownError[r] = st.log.threw
                /\ ~st.pending[r]
                /\ rd.log.handled = <<st.log.threw>>
                /\ rd = [st EXCEPT !.log = rd.log]

\* Fetchable.fetch threw inside a fetch() on a connected resource
C4_Witness ==
    \E r \in instances :
        /\ state[r] = "ERROR"
        /\ thrownError[r] = "FetchError"
        /\ connected[r]
        /\ ~pending[r]
        /\ params[r] # NoParams

\* The events stream s can deliver, applied to state st
StreamEvents(st, s) ==
    {NextAll(st, Subscribers(st, s), st.streams[s].data),
     ErrorAll(st, Subscribers(st, s)),
     CompleteAll(st, Subscribers(st, s))}

\* C5 (no stale event after a newer fetch): after fetch(P2) on a resource
\* subscribed to the open stream of an earlier fetch(P1) with another key,
\* no value, error or completion of P1's stream changes the resource's state,
\* value, pending or thrownError, whether fetch(P2) built its stream or
\* Fetchable.fetch threw.
C5_NoStaleEvent ==
    \A r \in instances : \A p \in Params : \A e \in Env :
        LET old == subscription[r] IN
        (/\ old # NoSub
         /\ streams[old].phase = "open"
         /\ ~SerializeThrows(p)
         /\ getCacheKey(p) # streams[old].key)
        => LET st == fetch(S, r, p, e.fetchThrows, e.sy)
           IN \A ev \in StreamEvents(st, old) :
                /\ ev.state[r] = st.state[r]
                /\ ev.value[r] = st.value[r]
                /\ ev.pending[r] = st.pending[r]
                /\ ev.thrownError[r] = st.thrownError[r]

\* C6 (stale-while-revalidate read): in every reachable state the stored
\* value is the value most recently delivered to the resource, absent when
\* none was delivered, and read() returns the most recently delivered value,
\* the ones delivered while it connects included.
C6_ReadLastValue ==
    \A r \in instances :
        /\ value[r] = lastValue[r]
        /\ \A sy \in Sync :
             LET rd == read(S, r, sy)
             IN rd.value[r] = LastDelivered(rd.log.delivered, r, lastValue[r])

\* The value 1 is still read although [2] was fetched since and is pending
C6_Witness ==
    \E r \in instances :
        /\ value[r] = 1
        /\ params[r] = <<2>>
        /\ pending[r]
        /\ subscription[r] # NoSub
        /\ streams[subscription[r]].key = "[2]"

\* The state a delivery of the given kind leaves
StateAfter(kind) ==
    CASE kind = "next" -> "ACTIVE"
      [] kind = "error" -> "ERROR"
      [] kind = "complete" -> "COMPLETE"

\* What a fetch in which nothing throws does whatever the state was: st is
\* the state in which fetch(p) on r returns
FetchStores(r, p, st) ==
    /\ st.params[r] = p
    /\ state[r] = "EMPTY" =>
         /\ st.state[r] = "READY"
         /\ ~st.pending[r]
         /\ ~st.slow[r]
         /\ st.log.delivered = <<>>

\* C7 (as the code has it): a fetch(P) in which nothing throws stores
\* params = P; it returns in state READY unless the stream it reconnected to
\* delivered synchronously, and then in the state of the last such delivery
\* (ACTIVE, ERROR or COMPLETE); from EMPTY it returns in READY with pending
\* and slow false, nothing having been delivered.
C7_FetchReady ==
    \A r \in instances : \A p \in Params : \A e \in Env :
        LET st == fetch(S, r, p, e.fetchThrows, e.sy)
            d == st.log.delivered
        IN st.log.threw = NoError =>
             /\ FetchStores(r, p, st)
             /\ st.state[r] = IF d = <<>> THEN "READY" ELSE StateAfter(d[Len(d)][2])

\* C7 as stated: a fetch(P) in which nothing throws stores params = P and
\* returns in state READY, whatever the state was; from EMPTY also with
\* pending and slow false.
C7_FetchReadyAsStated ==
    \A r \in instances : \A p \in Params : \A e \in Env :
        LET st == fetch(S, r, p, e.fetchThrows, e.sy)
        IN st.log.threw = NoError =>
             /\ FetchStores(r, p, st)
             /\ st.state[r] = "READY"

\* A fetch moved a resource from SLOW to READY
C7_Witness ==
    \E r \in instances :
        /\ state[r] = "READY"
        /\ slow[r]
        /\ params[r] # NoParams

\* C8 (a delivered value): every value a stream delivers to a resource
\* subscribed to it, when the source emits or while the resource connects,
\* leaves state = ACTIVE, that value as the one read() returns,
\* pending = false and slow = false.
C8_ValueDelivered ==
    /\ \A s \in 1..Len(streams) :
         streams[s].phase = "open" =>
           LET v == streams[s].data
               st == NextAll(S, Subscribers(S, s), v)
           IN \A r \in Subscribers(S, s) :
                /\ st.state[r] = "ACTIVE"
                /\ st.value[r] = v
                /\ ~st.pending[r]
                /\ ~st.slow[r]
                /\ read(st, r, SyncNone).value[r] = v
                /\ read(st, r, SyncNone).state[r] = "ACTIVE"
    /\ \A r \in instances :
         LET st == connect(S, r, "next")
             d == st.log.delivered
         IN (d # <<>> /\ d[Len(d)][2] = "next") =>
              /\ st.state[r] = "ACTIVE"
              /\ st.value[r] = d[Len(d)][3]
              /\ ~st.pending[r]
              /\ ~st.slow[r]

\* The stream of [2] delivered its value to a resource subscribed to it
C8_Witness ==
    \E r \in instances :
        /\ state[r] = "ACTIVE"
        /\ value[r] = 2
        /\ subscription[r] # NoSub
        /\ streams[subscription[r]].buf = 2
        /\ ~pending[r]
        /\ ~slow[r]

\* C9 (a delivered error): an error of the stream a resource is subscribed
\* to leaves state = ERROR, thrownError = the error, pending = false and
\* slow = false; it is raised to nobody and the value is the one before.
C9_ErrorDelivered ==
    \A s \in 1..Len(streams) :
        streams[s].phase = "open" =>
          LET st == ErrorAll(S, Subscribers(S, s))
          IN \A r \in Subscribers(S, s) :
               /\ st.state[r] = "ERROR"
               /\ st.thrownError[r] = "StreamError"
               /\ ~st.pending[r]
               /\ ~st.slow[r]
               /\ st.value[r] = value[r]
               /\ st.log.threw = NoError

\* A stream failed after it had delivered a value
C9_Witness ==
    \E r \in instances :
        /\ state[r] = "ERROR"
        /\ thrownError[r] = "StreamError"
        /\ value[r] # NoValue
        /\ connected[r]
        /\ ~pending[r]

\* C10 (completion): the completion of the stream a resource is subscribed
\* to leaves state = COMPLETE, pending = false and slow = false and the value
\* as it was, whether or not the stream delivered a value before.
C10_Completion ==
    \A s \in 1..Len(streams) :
        streams[s].phase = "open" =>
          LET st == CompleteAll(S, Subscribers(S, s))
          IN \A r \in Subscribers(S, s) :
               /\ st.state[r] = "COMPLETE"
               /\ ~st.pending[r]
               /\ ~st.slow[r]
               /\ st.value[r] = value[r]

\* The stream of the latest fetch completed without a value and the
\* resource still has the value of an earlier stream
C10_Witness ==
    \E r \in instances :
        /\ state[r] = "COMPLETE"
        /\ ~pending[r]
        /\ value[r] # NoValue
        /\ source[r] # EmptyStream
        /\ streams[source[r]].phase = "complete"
        /\ streams[source[r]].buf = NoValue

\* C11 (slow classification): connect arms a timer due timeoutMs later; when
\* it runs on a connected resource that is still pending, nothing having
\* arrived, the state becomes SLOW with slow = true and pending still true;
\* the next value, error or completion of the stream then sets slow = false
\* and moves the state to ACTIVE, ERROR or COMPLETE.
C11_SlowClassification ==
    \A r \in instances :
        /\ ~connected[r] =>
             connect(S, r, SyncNone).timers[r] = timers[r] \cup {now + options.timeoutMs}
        /\ (connected[r] /\ pending[r] /\ \E due \in timers[r] : due <= now) =>
             LET st == slowTimeout(S, r)
             IN /\ st.state[r] = "SLOW"
                /\ st.slow[r]
                /\ st.pending[r]
                /\ st.subscription[r] # NoSub =>
                     \A kind \in {"next", "error", "complete"} :
                       LET ev == CASE kind = "next" -> ObserverNext(st, r, 1)
                                   [] kind = "error" -> ObserverError(st, r, "StreamError")
                                   [] kind = "complete" -> ObserverComplete(st, r)
                       IN /\ ev.state[r] = StateAfter(kind)
                          /\ ~ev.slow[r]
                          /\ ~ev.pending[r]

\* The timer ran on a resource that waits for the stream it is subscribed to
C11_Witness ==
    \E r \in instances :
        /\ state[r] = "SLOW"
        /\ slow[r]
        /\ pending[r]
        /\ connected[r]
        /\ subscription[r] # NoSub
        /\ now >= options.timeoutMs

\* C12 (slow implies pending): in every reachable state a resource in state
\* SLOW is pending; the timer of a connection moves no resource to SLOW
\* whose stream has delivered a value, an error or its completion.
C12_SlowImpliesPending ==
    \A r \in instances : state[r] = "SLOW" => pending[r]

\* The number of entries of kind k for resource r in a log sequence q
CountOf(q, r, k) == Cardinality({i \in 1..Len(q) : q[i][1] = r /\ q[i][2] = k})

\* The number of events delivered to r
Deliveries(st, r) ==
    Cardinality({i \in 1..Len(st.log.delivered) : st.log.delivered[i][1] = r})

\* Every markForCheck is followed at once by the broadcast of the same
\* resource, and nothing is broadcast otherwise
MarkedThenBroadcast(st) ==
    LET q == st.log.notified
    IN /\ Len(q) % 2 = 0
       /\ \A i \in 1..Len(q) :
            IF i % 2 = 1
            THEN q[i][2] = "markForCheck" /\ q[i + 1] = <<q[i][1], "broadcast">>
            ELSE q[i][2] = "broadcast"

\* The state every operation and every event leaves when applied to the
\* current state, under every environment
Outcomes ==
    UNION {{fetch(S, r, p, e.fetchThrows, e.sy) : r \in instances, p \in Params}
           \cup {revalidate(S, r, e.fetchThrows, e.sy) : r \in instances}
           \cup {read(S, r, e.sy) : r \in instances}
           \cup {connect(S, r, e.sy) : r \in instances}
           \cup {focusHandleEvent(S, "visible", e.fetchThrows, e.sy),
                 onlineHandleEvent(S, e.fetchThrows, e.sy)} : e \in Env}
    \cup {disconnect(S, r) : r \in instances}
    \cup {invalidate(S, r, all) : r \in instances, all \in BOOLEAN}
    \cup {slowTimeout(S, r) : r \in instances}
    \cup UNION {StreamEvents(S, s) : s \in {x \in 1..Len(streams) : streams[x].phase = "open"}}

\* How often the change detector is marked, per operation: once per emit
MarkedOncePerEmit ==
    /\ \A r \in instances : \A p \in Params : \A e \in Env :
         LET st == fetch(S, r, p, e.fetchThrows, e.sy)
         IN CountOf(st.log.notified, r, "markForCheck")
              = Deliveries(st, r) + (IF st.log.threw # NoError THEN 1 ELSE 0)
    /\ \A r \in instances : \A sy \in Sync :
         \A st \in {read(S, r, sy), connect(S, r, sy)} :
            CountOf(st.log.notified, r, "markForCheck") = Deliveries(st, r)
    /\ \A r \in instances :
         /\ CountOf(slowTimeout(S, r).log.notified, r, "markForCheck") = 1
         /\ disconnect(S, r).log.notified = <<>>
         /\ \A all \in BOOLEAN : invalidate(S, r, all).log.notified = <<>>
    /\ \A s \in 1..Len(streams) :
         streams[s].phase = "open" =>
           /\ \A st \in StreamEvents(S, s) : \A r \in instances :
                CountOf(st.log.notified, r, "markForCheck")
                  = IF r \in Subscribers(S, s) THEN 1 ELSE 0
           /\ LET three == NextAll(NextAll(NextAll(S, Subscribers(S, s), streams[s].data),
                                           Subscribers(S, s), streams[s].data),
                                   Subscribers(S, s), streams[s].data)
                  st == CompleteAll(three, Subscribers(S, s))
              IN \A r \in Subscribers(S, s) :
                   CountOf(st.log.notified, r, "markForCheck") = 4

\* C13 (as the code has it): every change of a resource's state to SLOW,
\* ACTIVE, ERROR or COMPLETE is made by an emit, which marks the change
\* detector exactly once and then broadcasts the resource; three values and
\* a completion yield four notifications.  The change to READY that fetch
\* makes is neither notified nor broadcast.
C13_NotifyOncePerEmit ==
    /\ MarkedOncePerEmit
    /\ \A st \in Outcomes :
         /\ MarkedThenBroadcast(st)
         /\ \A r \in instances :
              (st.state[r] # state[r] /\ st.state[r] # "READY") =>
                  CountOf(st.log.notified, r, "markForCheck") >= 1

\* C13 as stated: every change of a resource's state, the change to READY
\* included, marks the change detector and then broadcasts the resource.
C13_NotifyEveryChange ==
    \A st \in Outcomes :
        /\ MarkedThenBroadcast(st)
        /\ \A r \in instances :
             st.state[r] # state[r] =>
                 CountOf(st.log.notified, r, "markForCheck") >= 1

\* A resource that was read is subscribed to an open stream and waits for
\* its first value
C13_Witness ==
    \E r \in instances :
        /\ state[r] = "READY"
        /\ pending[r]
        /\ value[r] = NoValue
        /\ subscription[r] # NoSub
        /\ streams[subscription[r]].phase = "open"
        /\ streams[subscription[r]].buf = NoValue

\* C14 (invalidate): invalidate(false) removes the cache entry of the
\* resource's current key, which holds the stream and the dedupe timestamp,
\* and leaves every other entry and everything else as it was;
\* invalidate(true) removes every entry.  After either, a fetch of an
\* invalidated key on any instance invokes Fetchable.fetch, whatever
\* immutable and dedupeMs are and although no time has passed.
C14_Invalidate ==
    \A r \in instances : \A all \in BOOLEAN :
        LET st == invalidate(S, r, all)
            gone == DOMAIN cache \ DOMAIN st.cache
        IN /\ gone = IF all THEN DOMAIN cache ELSE DOMAIN cache \cap {cacheKey[r]}
           /\ \A k \in DOMAIN st.cache : st.cache[k] = cache[k]
           /\ st = [S EXCEPT !.cache = st.cache]
           /\ \A x \in instances : \A p \in Params : \A e \in Env :
                (~SerializeThrows(p) /\ getCacheKey(p) \in gone) =>
                    fetch(st, x, p, e.fetchThrows, e.sy).log.invoked = <<getCacheKey(p)>>

\* With immutable on, the entry of [1] was invalidated after its stream was
\* built, and the entry of [2] is still there
C14_Witness ==
    /\ options.immutable
    /\ DOMAIN cache = {"[2]"}
    /\ \E r \in instances :
         /\ cacheKey[r] = "[1]"
         /\ source[r] # EmptyStream
         /\ streams[source[r]].key = "[1]"

C16_ClassScopedCache ==
    /\ \A a \in instances :
          /\ cacheOf[a] \in 1..Len(caches)
          /\ classOf[a] \in DOMAIN registry
          /\ registry[classOf[a]] = cacheOf[a]
    /\ \A a, b \in instances :
          (classOf[a] = classOf[b]) <=> (cacheOf[a] = cacheOf[b])
    /\ \A a \in instances : \A b \in instances \ {a} : \A p \in Params, e \in Env :
          LET k == getCacheKey(p)
              theirs == caches[cacheOf[a]]
              st == offClass(fetch(onClass(S, b), b, p, e.fetchThrows, e.sy), b)
          IN (/\ ~SerializeThrows(p)
              /\ k \in DOMAIN theirs
              /\ \/ options.immutable
                 \/ isWithinDedupeInterval(DedupeMs(options),
                                           theirs[k].lastModified, now))
             => IF classOf[a] = classOf[b]
                THEN /\ st.log.invoked = <<>>
                     /\ st.source[b] = theirs[k].source
                     /\ st.caches = caches
                ELSE /\ st.caches[cacheOf[a]] = theirs
                     /\ k \notin DOMAIN caches[cacheOf[b]] =>
                            /\ st.log.invoked = <<k>>
                            /\ st.source[b] # theirs[k].source
                            /\ IF e.fetchThrows
                               THEN st.caches = caches
                               ELSE st.caches[cacheOf[b]][k].source = st.source[b]

\* resources of two classes have fetched the same key at the same time, and
\* each class has its own stream for it
C16_Witness ==
    /\ instances = Resources
    /\ classOf[1] # classOf[2]
    /\ cacheKey[1] = "[1]" /\ cacheKey[2] = "[1]"
    /\ "[1]" \in DOMAIN caches[cacheOf[1]]
    /\ "[1]" \in DOMAIN caches[cacheOf[2]]
    /\ caches[cacheOf[1]]["[1]"].lastModified = caches[cacheOf[2]]["[1]"].lastModified
    /\ source[1] # source[2]

\* C17: in the merging variant, for params P1 and P2 with different keys,
\* the stream the resource uses after fetch(P1) followed by fetch(P2) is not
\* the stream cached for P1, it and every stream it is merged with were
\* built for P2, the subscription listens to and replays the values of
\* streams of P2 only, and Fetchable.fetch is invoked for P2 when P2 has no
\* cache entry, although P1 was fetched at the same instant.
C17_OnlyNewParams ==
    \A r \in instances : \A p1 \in Params, p2 \in Params :
        LET k1 == getCacheKey(p1)
            k2 == getCacheKey(p2)
            a == fetch2(S, r, p1, FALSE)
            b == fetch2(a, r, p2, FALSE)
            mine == {b.source[r]} \cup Previous(b.streams, b.source[r])
        IN (~SerializeThrows(p1) /\ ~SerializeThrows(p2) /\ k1 # k2)
           => /\ b.source[r] # a.source[r]
              /\ \A s \in mine \cup b.legs[r] : b.streams[s].key = k2
              /\ \A i \in (Len(a.log.delivered) + 1)..Len(b.log.delivered) :
                    b.log.delivered[i][2] = "next"
                        => b.log.delivered[i][3] = FetchValue(p2)
              /\ k2 \notin DOMAIN cache =>
                    b.log.invoked[Len(b.log.invoked)] = k2

\* Going from state old to state new, resource r got a stream for key k that
\* was built at that instant and is not the one the cache held before
NewlyBuilt(old, new, r, k) ==
    /\ k \in DOMAIN new.cache
    /\ new.source[r] = new.cache[k].source
    /\ new.cache[k].lastModified = new.now
    /\ new.streams[new.source[r]].key = k
    /\ new.streams[new.source[r]].born = new.now
    /\ k \in DOMAIN old.cache => new.cache[k].source # old.cache[k].source

SubscribedSources(st) ==
    {s \in 1..Len(st.streams) : st.streams[s].phase \in {"open", "complete"}}

\* C19: with the option cache: false a fetch neither reads nor writes the
\* cache mapping and builds a fresh stream at every call, also for equal
\* params inside the dedupe window; after fetch(), read(), fetch(), fetch()
\* on a new resource three sources have been subscribed.
C19_NeverCache ==
    options.cache = FALSE =>
        \A r \in instances, p \in Params :
            LET k == getCacheKey(p)
                a == fetch(S, r, p, FALSE, SyncNone)
                b == read(a, r, SyncNone)
                c == fetch(b, r, p, FALSE, SyncNone)
                d == fetch(c, r, p, FALSE, SyncNone)
            IN ~SerializeThrows(p) =>
                  /\ a.cache = cache
                  /\ a.log.invoked = <<k>>
                  /\ a = fetch([S EXCEPT !.cache = EmptyMap], r, p, FALSE, SyncNone)
                  /\ (state[r] = "EMPTY" /\ streams = <<>>) =>
                        /\ d.log.invoked = <<k, k, k>>
                        /\ Cardinality(SubscribedSources(d)) = 3

\* C20: in state ERROR, read() hands thrownError to handleError once per
\* call (twice for two calls), throws nothing, changes no field of any
\* resource, neither connection nor subscription among them, and returns
\* the value delivered last; in every other state read() hands nothing to
\* handleError.
C20_ReadReportsError ==
    \A r \in instances, sy \in Sync :
        LET st == read(S, r, sy)
            again == read(st, r, sy)
        IN IF state[r] = "ERROR"
           THEN /\ st.log.handled = <<thrownError[r]>>
                /\ again.log.handled = <<thrownError[r], thrownError[r]>>
                /\ st.log.threw = NoError
                /\ st.log.invoked = <<>> /\ st.log.delivered = <<>>
                /\ [st EXCEPT !.log = EmptyLog] = S
                /\ [again EXCEPT !.log = EmptyLog] = S
                /\ st.value[r] = lastValue[r]
           ELSE st.log.handled = <<>>

\* a resource whose stream delivered a value and then failed
C20_Witness ==
    \E r \in instances :
        /\ state[r] = "ERROR"
        /\ thrownError[r] = "StreamError"
        /\ value[r] # NoValue
        /\ connected[r]

\* The calls of source.subscribe that resource r made in a step
SubscribedBy(st, r) ==
    SelectSeq(st.log.subscribed, LAMBDA x : x[1] = r)

\* C21: on a connected resource connect() does nothing at all, and read()
\* subscribes nothing, arms no timer, runs no hook and leaves the
\* subscription as it is; a fetch that does not throw, followed by any
\* number of read() (here two or three), subscribes once, to the stream
\* that the fetch made the source.
C21_ConnectIdempotent ==
    \A r \in instances, sy \in Sync :
        /\ connected[r] =>
              /\ connect(S, r, sy) = S
              /\ LET st == read(S, r, sy)
                 IN /\ st.log.subscribed = <<>>
                    /\ st.log.hooks = <<>>
                    /\ st.timers = timers
                    /\ st.subscription = subscription
                    /\ st.connected = connected
        /\ \A p \in Params :
              LET a == fetch(S, r, p, FALSE, sy)
                  b == read(read(a, r, sy), r, sy)
                  c == read(b, r, sy)
              IN ~SerializeThrows(p) =>
                    /\ SubscribedBy(b, r) = <<<<r, a.source[r]>>>>
                    /\ SubscribedBy(c, r) = SubscribedBy(b, r)
                    /\ c.timers = b.timers
                    /\ c.log.hooks = b.log.hooks
                    /\ Cardinality(c.timers[r] \ timers[r]) <= 1

\* a connected resource in state READY with an open subscription: the next
\* read() is one more read after the one that connected
C21_Witness ==
    \E r \in instances :
        /\ connected[r]
        /\ state[r] = "READY"
        /\ subscription[r] # NoSub
        /\ timers[r] # {}

\* C22: connect sets pending and clears thrownError; while the resource
\* stays connected, pending stays true through every operation and event
\* that delivers it nothing, and the first value, error or completion that
\* its stream delivers clears pending.
C22_PendingUntilEvent ==
    \A r \in instances :
        /\ ~connected[r] =>
              LET st == connect(S, r, SyncNone)
              IN (st.log.delivered = <<>>) =>
                    (st.pending[r] /\ st.thrownError[r] = NoError)
        /\ (connected[r] /\ pending[r] /\ subscription[r] # NoSub) =>
              /\ \A st \in Outcomes :
                    (Deliveries(st, r) = 0 /\ st.connected[r]) => st.pending[r]
              /\ streams[subscription[r]].phase = "open" =>
                    \A st \in StreamEvents(S, subscription[r]) : ~st.pending[r]

\* The calls of hook that the features fs get for resource r, in the order
\* of fs
HookCalls(r, fs, hook) ==
    LET has == SelectSeq(fs, LAMBDA f : HasHook(f, hook))
    IN [i \in 1..Len(has) |-> <<r, has[i], hook>>]

\* C23: disconnect() on a resource that is not connected changes nothing and
\* calls nothing; on a connected one it unsubscribes once, calls the
\* onDisconnect hook of every feature once, and leaves state, value,
\* thrownError, params, source and the cache as they were; a second
\* disconnect() adds nothing.
C23_DisconnectFrame ==
    \A r \in instances :
        LET st == disconnect(S, r)
        IN /\ disconnect(st, r) = st
           /\ ~connected[r] => st = S
           /\ connected[r] =>
                 /\ ~st.connected[r]
                 /\ st.subscription[r] = NoSub
                 /\ st.log.unsubscribed = <<<<r, subscription[r]>>>>
                 /\ st.log.hooks = HookCalls(r, options.features, "onDisconnect")
                 /\ st.log.notified = <<>> /\ st.log.delivered = <<>>
                 /\ st.state = state /\ st.value = value
                 /\ st.thrownError = thrownError /\ st.params = params
                 /\ st.source = source /\ st.cache = cache
                 /\ st.cacheKey = cacheKey /\ st.streams = streams
                 /\ \A x \in instances \ {r} :
                       /\ st.connected[x] = connected[x]
                       /\ st.subscription[x] = subscription[x]

\* a connected resource that has received a value
C23_Witness ==
    \E r \in instances :
        /\ connected[r]
        /\ subscription[r] # NoSub
        /\ state[r] = "ACTIVE"
        /\ value[r] # NoValue

\* Going from the current state to st, resource r kept what it shows and
\* broadcast nothing
Untouched(st, r) ==
    /\ st.state[r] = state[r]
    /\ st.value[r] = value[r]
    /\ st.pending[r] = pending[r]
    /\ st.slow[r] = slow[r]
    /\ st.thrownError[r] = thrownError[r]
    /\ CountOf(st.log.notified, r, "broadcast") = 0

\* C24: while a resource is not connected, no event changes it or makes it
\* broadcast: neither a value, an error or a completion of any stream, nor
\* a timer that was armed while it was connected.
C24_Cancellation ==
    \A r \in instances :
        ~connected[r] =>
            /\ \A s \in 1..Len(streams) :
                  streams[s].phase = "open" =>
                     \A st \in StreamEvents(S, s) : Untouched(st, r)
            /\ timers[r] # {} => Untouched(slowTimeout(S, r), r)

\* C25: ngOnDestroy disconnects first (one unsubscribe and the
\* onDisconnect hooks when the resource is connected, nothing otherwise)
\* and then calls the onDestroy hook of every feature that has one, once,
\* in the order of options.features; the constructor and connect call
\* onInit and onConnect in that order too.
C25_DestroyOrder ==
    \A r \in instances :
        LET fs == options.features
            st == ngOnDestroy(S, r)
        IN /\ ~st.connected[r]
           /\ st.subscription[r] = NoSub
           /\ st.log.hooks =
                 (IF connected[r] THEN HookCalls(r, fs, "onDisconnect") ELSE <<>>)
                 \o HookCalls(r, fs, "onDestroy")
           /\ st.log.unsubscribed =
                 IF connected[r] THEN <<<<r, subscription[r]>>>> ELSE <<>>
           /\ InitHooks(S, r, fs).log.hooks = HookCalls(r, fs, "onInit")
           /\ ~connected[r] =>
                 connect(S, r, SyncNone).log.hooks = HookCalls(r, fs, "onConnect")

\* a connected, subscribed resource with two features of the user, about to
\* be destroyed
C25_Witness ==
    \E r \in instances :
        /\ connected[r]
        /\ subscription[r] # NoSub
        /\ ~destroyed[r]
        /\ options.features = <<"CustomA", "CustomB">>

\* C26: ngOnDestroy completes the broadcast of the resource: no
\* subscription obtained from subscribe() stays open, and whatever happens
\* to a destroyed resource afterwards, no subscriber is told.
C26_BroadcastCompleted ==
    \A r \in instances :
        /\ ngOnDestroy(S, r).observers[r] = 0
        /\ destroyed[r] =>
              \A st \in Outcomes :
                 CountOf(st.log.notified, r, "broadcast") > 0 => st.observers[r] = 0

Bound(feature) == \E i \in 1..Len(options.features) : options.features[i] = feature

\* the resources in a feature's set
Members(q) == {q[i] : i \in 1..Len(q)}

\* the resources the sets should hold in state st
ConnectedWith(st, feature) ==
    {r \in Resources : st.connected[r] /\ Bound(feature)}

\* both sets hold exactly the connected resources bound to their feature
SetsExact(st) ==
    /\ Members(st.focusResources) = ConnectedWith(st, "RevalidateOnFocus")
    /\ Members(st.onlineResources) = ConnectedWith(st, "RevalidateOnReconnect")
    /\ Len(st.focusResources) = Cardinality(Members(st.focusResources))
    /\ Len(st.onlineResources) = Cardinality(Members(st.onlineResources))

\* C28: after every operation the focus set and the reconnect set each hold
\* exactly the connected resources bound to that feature, each once: connect
\* adds the resource, disconnect and destruction remove it, and it is a
\* member after revalidate when it was one before.
C28_FeatureSets ==
    /\ SetsExact(S)
    /\ \A r \in instances, e \in Env :
          LET c == connect(S, r, e.sy)
              d == disconnect(S, r)
              x == ngOnDestroy(S, r)
              v == revalidate(S, r, e.fetchThrows, e.sy)
          IN /\ SetsExact(c) /\ SetsExact(d) /\ SetsExact(x) /\ SetsExact(v)
             /\ c.connected[r] /\ ~d.connected[r] /\ ~x.connected[r]
             /\ Members(c.focusResources) \ {r} = Members(focusResources) \ {r}
             /\ Members(d.onlineResources) = Members(onlineResources) \ {r}
             /\ Members(x.focusResources) = Members(focusResources) \ {r}
             /\ Members(focusResources) \subseteq Members(v.focusResources)
             /\ Members(onlineResources) \subseteq Members(v.onlineResources)

\* both resources are in both sets, and one of them is revalidated
C28_Witness ==
    /\ Members(focusResources) = Resources
    /\ Members(onlineResources) = Resources
    /\ \E r \in instances :
          /\ params[r] # NoParams
          /\ revalidate(S, r, FALSE, SyncNone).log.subscribed # <<>>

\* the entries of a log of pairs that are about r
About(q, r) == Cardinality({i \in 1..Len(q) : q[i][1] = r})

\* what a signal's handler must have done, given the set it found
Revalidated(st, set, fetchThrows) ==
    /\ st.log.revalidated = set
    /\ \A r \in Resources : ~connected[r] =>
          /\ \A i \in 1..Len(st.log.revalidated) : st.log.revalidated[i] # r
          /\ About(st.log.subscribed, r) = 0
    /\ \A r \in Members(set) :
          /\ About(st.log.unsubscribed, r) = About(st.log.subscribed, r)
          /\ (params[r] # NoParams /\ ~fetchThrows) =>
                /\ About(st.log.subscribed, r) = 1
                /\ st.log.subscribed[CHOOSE i \in 1..Len(st.log.subscribed) :
                                        st.log.subscribed[i][1] = r][2] = st.source[r]

\* C29: a visibility change to visible, and an online event, call
\* revalidate() exactly once on every resource that was in the feature's set
\* when the event arrived, in the order of the set, although a revalidate
\* removes and re-adds its resource; a visibility change to hidden does
\* nothing; a resource that is not connected is not revalidated.
C29_SignalRevalidates ==
    /\ focusHandleEvent(S, "hidden", FALSE, SyncNone) = S
    /\ \A e \in Env :
          /\ focusHandleEvent(S, "hidden", e.fetchThrows, e.sy) = S
          /\ Revalidated(focusHandleEvent(S, "visible", e.fetchThrows, e.sy),
                         focusResources, e.fetchThrows)
          /\ Revalidated(onlineHandleEvent(S, e.fetchThrows, e.sy),
                         onlineResources, e.fetchThrows)

\* two resources in the sets, one of them with params: the event removes
\* and re-adds it
C29_Witness ==
    /\ Len(focusResources) = 2 /\ Len(onlineResources) = 2
    /\ \E r \in instances :
          /\ params[r] # NoParams
          /\ focusResources[1] = r
          /\ LET f == focusHandleEvent(S, "visible", FALSE, SyncNone)
             IN /\ About(f.log.unsubscribed, r) = 1
                /\ f.focusResources[2] = r
                /\ Len(f.log.revalidated) = 2

\* C30: while a resource that was fetched and is bound to
\* RevalidateOnInterval with a positive interval is connected, its interval
\* timer is armed and due within one interval, and when it comes due
\* revalidate() subscribes the source again (dedupe is disabled); also after
\* the fetched stream emitted one value and completed.
C30_IntervalRevalidates ==
    \A r \in instances :
        (connected[r] /\ params[r] # NoParams
         /\ Bound("RevalidateOnInterval") /\ options.interval > 0) =>
            /\ \E t \in armed[r] : t.due <= now + options.interval
            /\ LET st == revalidate(S, r, FALSE, SyncNone)
               IN /\ About(st.log.subscribed, r) = 1
                  /\ \E t \in st.armed[r] : t.due = now + options.interval

\* what the handlers that do not connect leave of the timers of r
NoneArmed(st, r) == st.armed[r] \subseteq armed[r]

\* C31: an interval timer is armed for a resource only by connect and only
\* when the interval is positive; at most one is armed per resource; after
\* disconnect and after destruction none is armed, so that a timer that
\* comes due finds its resource connected.
C31_IntervalTimerLifecycle ==
    \A r \in instances :
        /\ Cardinality(armed[r]) <= 1
        /\ armed[r] # {} => (connected[r] /\ options.interval > 0
                             /\ Bound("RevalidateOnInterval"))
        /\ \A t \in armed[r] : t.id = intervals[r]
        /\ disconnect(S, r).armed[r] = {}
        /\ ngOnDestroy(S, r).armed[r] = {}
        /\ \A e \in Env :
              LET c == connect(S, r, e.sy)
              IN /\ Cardinality(c.armed[r]) <= 1
                 /\ (c.armed[r] \ armed[r] # {}) =>
                        (~connected[r] /\ options.interval > 0)
        /\ \A all \in BOOLEAN : NoneArmed(invalidate(S, r, all), r)
        /\ \A s \in 1..Len(streams) : \A st \in StreamEvents(S, s) : NoneArmed(st, r)
        /\ \A due \in timers[r] : NoneArmed(slowTimeout(S, r), r)
        /\ (~connected[r] /\ state[r] # "READY") =>
              \A e \in Env : NoneArmed(read(S, r, e.sy), r)

\* the timer of a second connection is armed, and disconnect clears it
C31_Witness ==
    \E r \in instances :
        /\ armed[r] # {}
        /\ watchers[r] = 2
        /\ disconnect(S, r).intervals[r] = NoTimer
        /\ disconnect(S, r).log.hooks = <<<<r, "RevalidateOnInterval", "onDisconnect">>>>

C40_OneBroadcastSubscription ==
    \A r \in instances : watchers[r] <= 1

\* get error()
error(st, r) == st.state[r] = "ERROR"

\* get complete()
complete(st, r) == st.state[r] = "COMPLETE"

\* C32: in every reachable state error is true exactly when the state is
\* ERROR, complete exactly when it is COMPLETE, and slow exactly when it is
\* SLOW, also right after a fetch made while the resource was SLOW.
C32_FlagsAreViews ==
    \A r \in instances :
        /\ error(S, r) <=> state[r] = "ERROR"
        /\ complete(S, r) <=> state[r] = "COMPLETE"
        /\ slow[r] <=> state[r] = "SLOW"

\* C35: at most one slow timer is pending per resource, and after a
\* reconnect the only timer pending is the one the new connection armed, due
\* timeoutMs after it, so that the resource is not made SLOW earlier.
C35_SlowTimerPerConnection ==
    \A r \in instances :
        /\ Cardinality(timers[r]) <= 1
        /\ options.timeoutMs > 0 =>
              /\ connect(disconnect(S, r), r, SyncNone).timers[r]
                    = {now + options.timeoutMs}
              /\ (connected[r] /\ params[r] # NoParams) =>
                    revalidate(S, r, FALSE, SyncNone).timers[r]
                      = {now + options.timeoutMs}

\* C36: pending is never true together with error or complete: in every
\* reachable state pending = true implies that the state is READY or SLOW.
C36_PendingImpliesWaiting ==
    \A r \in instances : pending[r] => state[r] \in {"READY", "SLOW"}

\* C37: a fetch that reuses the cached stream writes nothing to the cache,
\* so the entry's lastModified stays the time its stream was constructed;
\* and with immutable off, after a deduped fetch of key K the fetch of K made
\* dedupeMs after that construction invokes Fetchable.fetch and stores a new
\* stream with lastModified = now.
C37_NoWindowExtension ==
    \A r \in instances : \A p \in Params :
        LET key == getCacheKey(p)
            D == DedupeMs(options)
        IN (~SerializeThrows(p) /\ key \in DOMAIN cache) =>
             LET built == cache[key].lastModified
                 a == fetch(S, r, p, FALSE, SyncNone)
                 late == [a EXCEPT !.now = IF built + D > now THEN built + D ELSE now,
                                   !.log = EmptyLog]
                 b == fetch(late, r, p, FALSE, SyncNone)
             IN /\ built = streams[cache[key].source].born
                /\ a.log.invoked = <<>> => a.cache = cache
                /\ (a.log.invoked = <<>> /\ ~options.immutable) =>
                      /\ now - built < D
                      /\ b.log.invoked = <<key>>
                      /\ b.cache[key].lastModified = late.now
                      /\ b.cache[key].source # cache[key].source
                      /\ late.now - built = D

\* a stream was built one tick ago, inside the window: the fetch made now is
\* deduped
C37_Witness ==
    /\ ~options.immutable
    /\ DedupeMs(options) > TickMs
    /\ now = TickMs
    /\ \E r \in instances :
          /\ params[r] # NoParams
          /\ cacheKey[r] \in DOMAIN cache
          /\ cache[cacheKey[r]].lastModified = 0
          /\ fetch(S, r, params[r], FALSE, SyncNone).log.invoked = <<>>
          /\ steps = 3

\* C38: a fetch in which the serializer or Fetchable.fetch throws leaves the
\* class cache as it was, for every key; when the key had no entry, the next
\* fetch of the same params invokes Fetchable.fetch, whatever dedupeMs and
\* immutable are.
C38_FailedFetchKeepsCache ==
    \A r \in instances : \A p \in Params : \A e \in Env :
        LET st == fetch(S, r, p, e.fetchThrows, e.sy)
            again == fetch([st EXCEPT !.log = EmptyLog], r, p, FALSE, SyncNone)
        IN st.log.threw # NoError =>
             /\ st.cache = cache
             /\ st.caches = caches
             /\ (~SerializeThrows(p) /\ getCacheKey(p) \notin DOMAIN cache) =>
                   /\ again.log.invoked = <<getCacheKey(p)>>
                   /\ again.cache[getCacheKey(p)].lastModified = now

\* Fetchable.fetch threw in the first fetch of a key, and nothing was cached
C38_Witness ==
    \E r \in instances :
        /\ thrownError[r] = "FetchError"
        /\ state[r] = "ERROR"
        /\ cacheKey[r] \notin DOMAIN cache
        /\ params[r] # NoParams
        /\ streams = <<>>

\* C39: in the value-caching variant the key fetch(P) uses for the lookup
\* and for storing the values of the stream it builds is serialize(P): every
\* cached value was fetched with params that serialize to the key it is
\* stored under, the stream a fetch(P) builds is tagged with P's key, and
\* what a fetch(P) emits from the cache was fetched with params of P's key.
C39_KeyOfParams ==
    /\ \A k \in DOMAIN cache :
          \E p \in Params : getCacheKey(p) = k /\ cache[k] = FetchValue(p)
    /\ \A r \in instances : \A p \in Params :
          ~SerializeThrows(p) =>
             LET st == fetch1(S, r, p, FALSE)
             IN /\ st.log.invoked # <<>> =>
                      st.streams[st.source[r]].key = getCacheKey(p)
                /\ \A i \in 1..Len(st.log.delivered) :
                      getCacheKey(<<st.log.delivered[i][3]>>) = getCacheKey(p)

----------------------------------------------------------------------------
(* Features that call back into the resource.  A hook receives the         *)
(* resource and may call its public methods; the two features here         *)
(* revalidate it, one when it connects and one when it disconnects.        *)

ReentrantOptionChoices ==
    [immutable : {FALSE}, dedupeMs : {NoOption, 0}, timeoutMs : {1000},
     features : {<<"RevalidateOnConnect">>, <<"RevalidateOnDisconnect">>}]

InitReentrant == InitWith({1}, ReentrantOptionChoices, MaxReentrantSteps)

SpecReentrant == InitReentrant /\ [][Next]_vars

\* The open subscriptions of the observer of r to fetch streams: the lost
\* ones and the one Resource.subscription holds
ActiveSubscriptions(st, r) ==
    st.leaked[r] \o (IF st.subscription[r] # NoSub THEN <<st.subscription[r]>> ELSE <<>>)

\* C34: a resource holds at most one open subscription to a fetch stream,
\* and when a fetch that did not throw has returned on a connected resource
\* every open subscription is to the resource's source, the stream of the
\* latest fetch, also with features whose hooks revalidate the resource
C34_OneSubscription ==
    \A r \in instances :
        /\ Len(ActiveSubscriptions(S, r)) <= 1
        /\ \A p \in Params, e \in Env :
              LET st == fetch(S, r, p, e.fetchThrows, e.sy)
                  subs == ActiveSubscriptions(st, r)
              IN /\ Len(subs) <= 1
                 /\ st.connected[r] /\ st.log.threw = NoError
                      => \A i \in 1..Len(subs) : subs[i] = st.source[r]
====
